---- MODULE Spec2Model ----
(***************************************************************************)
(* Model of the x86 Studio toolchain core: the virtual 8086 CPU            *)
(* (src/src/emulator/cpu.ts), the per-step diagnostics                     *)
(* (src/src/lab/debugger.ts), the snapshot helpers                         *)
(* (src/src/lab/snapshots.ts) and the time-travel debugger handlers of     *)
(* src/src/App.tsx.                                                        *)
(*                                                                         *)
(* Representation choices:                                                 *)
(*  - an operand string is a tagged record (register, memory reference,    *)
(*    immediate, label); parseRegister / parseMemoryOperand /              *)
(*    parseImmediate classify the tag as the regular expressions of the    *)
(*    source classify the text;                                            *)
(*  - the 4096-byte Uint8Array is a function defined on the addresses of   *)
(*    its non-zero bytes (every other byte reads 0), so that two memories  *)
(*    are equal exactly when they are byte-equal;                          *)
(*  - JavaScript null is the empty sequence for an optional CPU state and  *)
(*    the string "null" for an optional error message;                     *)
(*  - instruction indices are 0-based as in the source, sequences are      *)
(*    1-based, so instructions[ip] of the source is instructions[ip + 1].  *)
(***************************************************************************)
EXTENDS Integers, Sequences, FiniteSets, TLC

(***************************************************************************)
(* Program constants.                                                      *)
(***************************************************************************)
MEMORY_SIZE == 4096

STACK_START == 4094

WORD_MASK == 65535

FLAG_CF == 1

FLAG_PF == 4

FLAG_AF == 16

FLAG_ZF == 64

FLAG_SF == 128

FLAG_OF == 2048

MAX_MEMORY_WORD_CHANGES == 24

DEFAULT_CYCLES == 3

Null == "null"

(***************************************************************************)
(* Bounds of the model.  MAX_DEBUG_STEPS is 10000 in the source            *)
(* (src/src/App.tsx:90); the model runs the same loops with a small cap so *)
(* that the cap is reached.  MaxSnapshots bounds the length of the         *)
(* timeline an operation may produce: a run to the cap from the reset      *)
(* state, and TimelineSlack snapshots more.                                *)
(***************************************************************************)
MAX_DEBUG_STEPS == 3

TimelineSlack == 3

MaxSnapshots == MAX_DEBUG_STEPS + TimelineSlack

MaxWatchpoints == 1

\* named snapshots saved in one session of the model
MaxSavedSnapshots == 1

\* instructions executed from an input state of the CPU specification
MaxCpuSteps == 2

\* the highest number the code generator gives a label in this model
MaxLabels == 2

(***************************************************************************)
(* Word arithmetic.                                                        *)
(***************************************************************************)
Pow2(n) == 2 ^ n

Bit(x, n) == (x \div Pow2(n)) % 2

mask16(value) == value % (WORD_MASK + 1)

\* TRUE, and the value is computed by the time this is known: a loop that
\* asks it of its running result ends each pass before the next begins
Evaluated(value) == value = value

Max(a, b) == IF a >= b THEN a ELSE b

Min(a, b) == IF a <= b THEN a ELSE b

hasEvenParity(byteValue) ==
  LET b == byteValue % 256
  IN (Bit(b, 0) + Bit(b, 1) + Bit(b, 2) + Bit(b, 3)
        + Bit(b, 4) + Bit(b, 5) + Bit(b, 6) + Bit(b, 7)) % 2 = 0

baseResultFlags(result16) ==
  LET res == mask16(result16)
  IN (IF res = 0 THEN FLAG_ZF ELSE 0)
       + (IF Bit(res, 15) = 1 THEN FLAG_SF ELSE 0)
       + (IF hasEvenParity(res % 256) THEN FLAG_PF ELSE 0)

\* (a ^ b ^ res16) & 0x10: bit 4 of the exclusive or of the three values
AuxCarry(a, b, res16) == (Bit(a, 4) + Bit(b, 4) + Bit(res16, 4)) % 2 = 1

\* variant: the carry is taken from a sum of 65535 already
setFlagsAdd_carryAtMask(a, b, result) ==
  LET res16 == mask16(result)
      signA == Bit(a, 15) = 1
      signB == Bit(b, 15) = 1
      signR == Bit(res16, 15) = 1
  IN baseResultFlags(res16)
       + (IF result >= WORD_MASK THEN FLAG_CF ELSE 0)
       + (IF AuxCarry(a, b, res16) THEN FLAG_AF ELSE 0)
       + (IF signA = signB /\ signR # signA THEN FLAG_OF ELSE 0)

setFlagsAdd(a, b, result) ==
  LET res16 == mask16(result)
      signA == Bit(a, 15) = 1
      signB == Bit(b, 15) = 1
      signR == Bit(res16, 15) = 1
  IN baseResultFlags(res16)
       + (IF result > WORD_MASK THEN FLAG_CF ELSE 0)
       + (IF AuxCarry(a, b, res16) THEN FLAG_AF ELSE 0)
       + (IF signA = signB /\ signR # signA THEN FLAG_OF ELSE 0)

\* variant: the subtraction never reports signed overflow
setFlagsSub_withoutOverflow(a, b, result) ==
  LET res16 == mask16(result)
  IN baseResultFlags(res16)
       + (IF mask16(a) < mask16(b) THEN FLAG_CF ELSE 0)
       + (IF AuxCarry(a, b, res16) THEN FLAG_AF ELSE 0)

setFlagsSub(a, b, result) ==
  LET res16 == mask16(result)
      signA == Bit(a, 15) = 1
      signB == Bit(b, 15) = 1
      signR == Bit(res16, 15) = 1
  IN baseResultFlags(res16)
       + (IF mask16(a) < mask16(b) THEN FLAG_CF ELSE 0)
       + (IF AuxCarry(a, b, res16) THEN FLAG_AF ELSE 0)
       + (IF signA # signB /\ signR # signA THEN FLAG_OF ELSE 0)

getFlags(flags) ==
  [CF |-> Bit(flags, 0) = 1, PF |-> Bit(flags, 2) = 1, AF |-> Bit(flags, 4) = 1,
   ZF |-> Bit(flags, 6) = 1, SF |-> Bit(flags, 7) = 1, OF |-> Bit(flags, 11) = 1]

(***************************************************************************)
(* Operands.                                                               *)
(***************************************************************************)
GeneralRegisters == {"AX", "BX", "CX", "DX", "SI", "DI", "SP", "BP"}

REGISTER_NAMES == GeneralRegisters \cup {"IP", "FLAGS"}

NoAddress == -1

OpReg(r) == [kind |-> "reg", reg |-> r, val |-> 0, name |-> ""]

OpMemReg(r, offset) == [kind |-> "mem", reg |-> r, val |-> offset, name |-> ""]

OpMemImm(address) == [kind |-> "mem", reg |-> "", val |-> address, name |-> ""]

OpImm(v) == [kind |-> "imm", reg |-> "", val |-> v, name |-> ""]

OpLabel(l) == [kind |-> "label", reg |-> "", val |-> 0, name |-> l]

\* parseRegister: the register name, or "" where the source returns null
\* the prefixes of the labels the code generator numbers, in the case it
\* writes them and in upper case
GeneratedPrefixes ==
  ("_while_" :> "_WHILE_") @@ ("_endwhile_" :> "_ENDWHILE_")
    @@ ("_else_" :> "_ELSE_") @@ ("_endif_" :> "_ENDIF_")
    @@ ("_or_" :> "_OR_") @@ ("_notnot_" :> "_NOTNOT_")
    @@ ("_cmp_true_" :> "_CMP_TRUE_") @@ ("_cmp_end_" :> "_CMP_END_")

\* other spellings with lower-case letters that the inputs use
LowerCaseSpellings == ("hlt" :> "HLT") @@ ("loop" :> "LOOP")

GeneratedLabels ==
  {<< prefix \o ToString(n), GeneratedPrefixes[prefix] \o ToString(n) >> :
     prefix \in DOMAIN GeneratedPrefixes, n \in 0..MaxLabels}

\* String.prototype.toUpperCase, on the spellings of this model; every other
\* spelling in it is in upper case already
toUpperCase(text) ==
  IF text \in DOMAIN LowerCaseSpellings THEN LowerCaseSpellings[text]
  ELSE IF \E pair \in GeneratedLabels : pair[1] = text
    THEN (CHOOSE pair \in GeneratedLabels : pair[1] = text)[2]
    ELSE text

parseRegister(operand) ==
  IF operand.kind = "reg" /\ operand.reg \in GeneralRegisters THEN operand.reg ELSE ""

\* parseImmediate succeeds exactly on the numeric spellings
isImmediate(operand) == operand.kind = "imm"

parseImmediate(operand) == operand.val

\* parseMemoryOperand: the effective address, or NoAddress for null
parseMemoryOperand(operand, registers) ==
  IF operand.kind # "mem" THEN NoAddress
  ELSE IF operand.reg # ""
    THEN (IF operand.reg \in GeneralRegisters
            THEN mask16(registers[operand.reg] + operand.val)
            ELSE NoAddress)
    ELSE mask16(operand.val)

(***************************************************************************)
(* Memory.                                                                 *)
(***************************************************************************)
EmptyMemory == [a \in {} |-> 0]

readByte(memory, address) ==
  IF address \in DOMAIN memory THEN memory[address] ELSE 0

\* the result is merged with the empty memory so that it is held as a table
\* of its bytes and not as a rule over the memory before
writeByte(memory, address, byte) ==
  IF byte = 0
    THEN [a \in (DOMAIN memory) \ {address} |-> memory[a]] @@ EmptyMemory
    ELSE [a \in (DOMAIN memory) \cup {address} |->
            IF a = address THEN byte ELSE memory[a]] @@ EmptyMemory

\* variant: only the first byte of the word has to lie in memory
inBoundsWord_firstByte(address) == ~(address < 0 \/ address >= MEMORY_SIZE)

inBoundsWord(address) == ~(address < 0 \/ address + 1 >= MEMORY_SIZE)

readWord(state, address) ==
  readByte(state.memory, address) + 256 * readByte(state.memory, address + 1)

writeWord(state, address, value) ==
  LET val == mask16(value)
  IN [state EXCEPT !.memory =
        writeByte(writeByte(state.memory, address, val % 256),
                  address + 1, (val \div 256) % 256)]

(***************************************************************************)
(* CPU state.                                                              *)
(***************************************************************************)
createInitialState ==
  [registers |-> [AX |-> 0, BX |-> 0, CX |-> 0, DX |-> 0, SI |-> 0, DI |-> 0,
                  SP |-> STACK_START, BP |-> 0, IP |-> 0, FLAGS |-> 0],
   memory |-> EmptyMemory,
   halted |-> FALSE,
   error |-> Null]

\* variant: the failed instruction is stepped over
Throw_advancing(newState, message) ==
  [newState EXCEPT !.error = message, !.halted = TRUE, !.registers.IP = @ + 1]

\* the catch block of executeInstruction: the state as mutated so far,
\* with the message recorded and halted set
Throw(newState, message) == [newState EXCEPT !.error = message, !.halted = TRUE]

IncIP(s) == [s EXCEPT !.registers.IP = @ + 1]

\* resolveValue: ok/value, or the message of the exception it throws
resolveValue(state, operand) ==
  LET reg == parseRegister(operand)
      memAddr == parseMemoryOperand(operand, state.registers)
  IN IF reg # "" THEN [ok |-> TRUE, v |-> state.registers[reg], err |-> ""]
     ELSE IF memAddr # NoAddress
       THEN (IF inBoundsWord(memAddr)
               THEN [ok |-> TRUE, v |-> readWord(state, memAddr), err |-> ""]
               ELSE [ok |-> FALSE, v |-> 0, err |-> "Memory read out of bounds"])
     ELSE IF isImmediate(operand)
       THEN [ok |-> TRUE, v |-> parseImmediate(operand), err |-> ""]
     ELSE [ok |-> FALSE, v |-> 0, err |-> "Invalid operand"]

(***************************************************************************)
(* executeInstruction, one operator per case of its switch.  Each returns   *)
(* the new state; a throw inside the try block is Throw(state so far, msg). *)
(***************************************************************************)
ClearFlag(flags, flag) == IF (flags \div flag) % 2 = 1 THEN flags - flag ELSE flags

SetFlag(flags, flag) == IF (flags \div flag) % 2 = 1 THEN flags ELSE flags + flag

ExecMOV(newState, operands) ==
  LET destReg == parseRegister(operands[1])
      destMem == parseMemoryOperand(operands[1], newState.registers)
      srcReg == parseRegister(operands[2])
      srcMem == parseMemoryOperand(operands[2], newState.registers)
      srcIsImm == srcReg = "" /\ srcMem = NoAddress /\ isImmediate(operands[2])
  IN IF destReg = "" /\ destMem = NoAddress THEN Throw(newState, "Invalid destination")
     ELSE IF srcReg = "" /\ srcMem = NoAddress /\ ~srcIsImm THEN Throw(newState, "Invalid source")
     ELSE IF destMem # NoAddress /\ srcMem # NoAddress
       THEN Throw(newState, "Memory to memory MOV is not supported")
     ELSE IF srcReg = "" /\ srcMem # NoAddress /\ ~inBoundsWord(srcMem)
       THEN Throw(newState, "Memory read out of bounds")
     ELSE
       LET value == IF srcReg # "" THEN newState.registers[srcReg]
                    ELSE IF srcMem # NoAddress THEN readWord(newState, srcMem)
                    ELSE parseImmediate(operands[2])
       IN IF destReg # ""
            THEN IncIP([newState EXCEPT !.registers[destReg] = mask16(value)])
            ELSE IF ~inBoundsWord(destMem)
              THEN Throw(newState, "Memory write out of bounds")
              ELSE IncIP(writeWord(newState, destMem, value))

ExecADD(newState, operands) ==
  LET dest == parseRegister(operands[1])
      value == resolveValue(newState, operands[2])
  IN IF dest = "" THEN Throw(newState, "Invalid destination")
     ELSE IF ~value.ok THEN Throw(newState, value.err)
     ELSE
       LET a == newState.registers[dest]
           b == mask16(value.v)
           result == a + b
       IN IncIP([newState EXCEPT !.registers[dest] = mask16(result),
                                 !.registers.FLAGS = setFlagsAdd(a, b, result)])

ExecSUB(newState, operands) ==
  LET dest == parseRegister(operands[1])
      value == resolveValue(newState, operands[2])
  IN IF dest = "" THEN Throw(newState, "Invalid destination")
     ELSE IF ~value.ok THEN Throw(newState, value.err)
     ELSE
       LET a == newState.registers[dest]
           b == mask16(value.v)
           result == a - b
       IN IncIP([newState EXCEPT !.registers[dest] = mask16(result),
                                 !.registers.FLAGS = setFlagsSub(a, b, result)])

ExecADC(newState, operands) ==
  LET dest == parseRegister(operands[1])
      value == resolveValue(newState, operands[2])
  IN IF dest = "" THEN Throw(newState, "Invalid destination")
     ELSE IF ~value.ok THEN Throw(newState, value.err)
     ELSE
       LET carry == Bit(newState.registers.FLAGS, 0)
           a == newState.registers[dest]
           b == mask16(value.v) + carry
           result == a + b
       IN IncIP([newState EXCEPT !.registers[dest] = mask16(result),
                                 !.registers.FLAGS = setFlagsAdd(a, b, result)])

ExecSBB(newState, operands) ==
  LET dest == parseRegister(operands[1])
      value == resolveValue(newState, operands[2])
  IN IF dest = "" THEN Throw(newState, "Invalid destination")
     ELSE IF ~value.ok THEN Throw(newState, value.err)
     ELSE
       LET borrow == Bit(newState.registers.FLAGS, 0)
           a == newState.registers[dest]
           b == mask16(value.v) + borrow
           result == a - b
       IN IncIP([newState EXCEPT !.registers[dest] = mask16(result),
                                 !.registers.FLAGS = setFlagsSub(a, b, result)])

\* variant: CMP stores the difference like SUB
ExecCMP_storing(newState, operands) ==
  LET dest == parseRegister(operands[1])
      value == resolveValue(newState, operands[2])
  IN IF dest = "" THEN Throw(newState, "Invalid destination")
     ELSE IF ~value.ok THEN Throw(newState, value.err)
     ELSE
       LET a == newState.registers[dest]
           b == mask16(value.v)
           result == a - b
       IN IncIP([newState EXCEPT !.registers[dest] = mask16(result),
                                 !.registers.FLAGS = setFlagsSub(a, b, result)])

ExecCMP(newState, operands) ==
  LET dest == parseRegister(operands[1])
      value == resolveValue(newState, operands[2])
  IN IF dest = "" THEN Throw(newState, "Invalid destination")
     ELSE IF ~value.ok THEN Throw(newState, value.err)
     ELSE
       LET a == newState.registers[dest]
           b == mask16(value.v)
           result == a - b
       IN IncIP([newState EXCEPT !.registers.FLAGS = setFlagsSub(a, b, result)])

\* variant: INC takes CF from the addition
ExecINC_settingCF(newState, operands) ==
  LET dest == parseRegister(operands[1])
  IN IF dest = "" THEN Throw(newState, "Invalid destination")
     ELSE
       LET a == newState.registers[dest]
           result == a + 1
       IN IncIP([newState EXCEPT
                   !.registers[dest] = mask16(result),
                   !.registers.FLAGS = setFlagsAdd(a, 1, result)])

ExecINC(newState, operands) ==
  LET dest == parseRegister(operands[1])
  IN IF dest = "" THEN Throw(newState, "Invalid destination")
     ELSE
       LET a == newState.registers[dest]
           result == a + 1
           oldCF == IF Bit(newState.registers.FLAGS, 0) = 1 THEN FLAG_CF ELSE 0
       IN IncIP([newState EXCEPT
                   !.registers[dest] = mask16(result),
                   !.registers.FLAGS = ClearFlag(setFlagsAdd(a, 1, result), FLAG_CF) + oldCF])

ExecDEC(newState, operands) ==
  LET dest == parseRegister(operands[1])
  IN IF dest = "" THEN Throw(newState, "Invalid destination")
     ELSE
       LET a == newState.registers[dest]
           result == a - 1
           oldCF == IF Bit(newState.registers.FLAGS, 0) = 1 THEN FLAG_CF ELSE 0
       IN IncIP([newState EXCEPT
                   !.registers[dest] = mask16(result),
                   !.registers.FLAGS = ClearFlag(setFlagsSub(a, 1, result), FLAG_CF) + oldCF])

\* the word whose bit n is bits[n], for n up to the given bit
RECURSIVE wordOfBits(_, _)
wordOfBits(bits, n) ==
  IF n < 0 THEN 0 ELSE bits[n] * Pow2(n) + wordOfBits(bits, n - 1)

\* (a & b) & WORD_MASK
bitAnd(a, b) == wordOfBits([n \in 0..15 |-> Bit(a, n) * Bit(b, n)], 15)

\* (a | b) & WORD_MASK
bitOr(a, b) ==
  wordOfBits([n \in 0..15 |-> IF Bit(a, n) + Bit(b, n) > 0 THEN 1 ELSE 0], 15)

\* (a ^ b) & WORD_MASK
bitXor(a, b) == wordOfBits([n \in 0..15 |-> (Bit(a, n) + Bit(b, n)) % 2], 15)

\* variant: the logic flags come with the carry flag set
setFlagsLogic_settingCF(result16) == baseResultFlags(result16) + FLAG_CF

setFlagsLogic(result16) == baseResultFlags(result16)

ExecAND(newState, operands) ==
  LET dest == parseRegister(operands[1])
      value == resolveValue(newState, operands[2])
  IN IF dest = "" THEN Throw(newState, "Invalid destination")
     ELSE IF ~value.ok THEN Throw(newState, value.err)
     ELSE
       LET result == bitAnd(newState.registers[dest], value.v)
       IN IncIP([newState EXCEPT
                   !.registers[dest] = result,
                   !.registers.FLAGS = setFlagsLogic(result)])

ExecOR(newState, operands) ==
  LET dest == parseRegister(operands[1])
      value == resolveValue(newState, operands[2])
  IN IF dest = "" THEN Throw(newState, "Invalid destination")
     ELSE IF ~value.ok THEN Throw(newState, value.err)
     ELSE
       LET result == bitOr(newState.registers[dest], value.v)
       IN IncIP([newState EXCEPT
                   !.registers[dest] = result,
                   !.registers.FLAGS = setFlagsLogic(result)])

ExecXOR(newState, operands) ==
  LET dest == parseRegister(operands[1])
      value == resolveValue(newState, operands[2])
  IN IF dest = "" THEN Throw(newState, "Invalid destination")
     ELSE IF ~value.ok THEN Throw(newState, value.err)
     ELSE
       LET result == bitXor(newState.registers[dest], value.v)
       IN IncIP([newState EXCEPT
                   !.registers[dest] = result,
                   !.registers.FLAGS = setFlagsLogic(result)])

\* mask16(~value): FLAGS is not assigned
ExecNOT(newState, operands) ==
  LET dest == parseRegister(operands[1])
  IN IF dest = "" THEN Throw(newState, "Invalid destination")
     ELSE IncIP([newState EXCEPT
                   !.registers[dest] = mask16(-newState.registers[dest] - 1)])

\* two's complement negation, with the flags of 0 - value
ExecNEG(newState, operands) ==
  LET dest == parseRegister(operands[1])
  IN IF dest = "" THEN Throw(newState, "Invalid destination")
     ELSE
       LET value == newState.registers[dest]
       IN IncIP([newState EXCEPT
                   !.registers[dest] = mask16(-value),
                   !.registers.FLAGS = setFlagsSub(0, value, -value)])

\* quotient and remainder of the 32-bit dividend high * 65536 + low, for
\* high < divisor, by long division on the two bytes of low, so that no
\* intermediate value exceeds the integers of the model checker
divide32(high, low, divisor) ==
  LET upper == high * 256 + (low \div 256)
      lower == (upper % divisor) * 256 + (low % 256)
  IN [quotient |-> (upper \div divisor) * 256 + (lower \div divisor),
      remainder |-> lower % divisor]

\* variant: a quotient of exactly 65536 is not refused
ExecDIV_admittingOverflow(newState, operands) ==
  LET value == resolveValue(newState, operands[1])
  IN IF ~value.ok THEN Throw(newState, value.err)
     ELSE
       LET divisor == mask16(value.v)
           high == mask16(newState.registers.DX)
           low == mask16(newState.registers.AX)
       IN IF divisor = 0 THEN Throw(newState, "Division by zero")
          ELSE IF high > divisor
            THEN Throw(newState, "Division overflow")
            ELSE IncIP([newState EXCEPT
                          !.registers.AX = mask16(divide32(high, low, divisor).quotient),
                          !.registers.DX = mask16(divide32(high, low, divisor).remainder)])

\* the quotient of DX:AX exceeds WORD_MASK exactly when DX >= divisor
ExecDIV(newState, operands) ==
  LET value == resolveValue(newState, operands[1])
  IN IF ~value.ok THEN Throw(newState, value.err)
     ELSE
       LET divisor == mask16(value.v)
           high == mask16(newState.registers.DX)
           low == mask16(newState.registers.AX)
       IN IF divisor = 0 THEN Throw(newState, "Division by zero")
          ELSE IF high >= divisor
            THEN Throw(newState, "Division overflow")
            ELSE IncIP([newState EXCEPT
                          !.registers.AX = mask16(divide32(high, low, divisor).quotient),
                          !.registers.DX = mask16(divide32(high, low, divisor).remainder)])

\* overflow is "true", "false" or Null, as the boolean | null of the source
setFlagsShift(result16, carry, overflow, previousFlags) ==
  baseResultFlags(result16)
    + (IF carry THEN FLAG_CF ELSE 0)
    + (IF overflow = "true" THEN FLAG_OF
       ELSE IF overflow = Null /\ Bit(previousFlags, 11) = 1 THEN FLAG_OF
       ELSE 0)

\* the shift count of SHL/SAL/SHR/SAR: 1 without a second operand, else the
\* register or the immediate, masked to five bits
shiftCount(newState, operands) ==
  LET srcReg == IF Len(operands) > 1 THEN parseRegister(operands[2]) ELSE ""
      count == IF Len(operands) > 1
                 THEN (IF srcReg # "" THEN newState.registers[srcReg] % 32
                       ELSE IF isImmediate(operands[2])
                         THEN parseImmediate(operands[2]) % 32
                         ELSE 1)
                 ELSE 1
  IN count % 32

ExecSHL(newState, operands) ==
  LET dest == parseRegister(operands[1])
      count == shiftCount(newState, operands)
  IN IF dest = "" THEN Throw(newState, "Invalid destination")
     ELSE IF count = 0 THEN IncIP(newState)
     ELSE
       LET value == mask16(newState.registers[dest])
           shift == Min(count, 16)
           carry == Bit(value, 16 - shift) = 1
           \* mask16(value << shift): the bits above bit 15 are dropped
           result == (value % Pow2(16 - shift)) * Pow2(shift)
           overflow == IF count = 1
                         THEN (IF Bit(result, 15) # Bit(value, 15) THEN "true" ELSE "false")
                         ELSE Null
       IN IncIP([newState EXCEPT
                   !.registers[dest] = result,
                   !.registers.FLAGS =
                       setFlagsShift(result, carry, overflow, newState.registers.FLAGS)])

ExecSHR(newState, operands) ==
  LET dest == parseRegister(operands[1])
      count == shiftCount(newState, operands)
  IN IF dest = "" THEN Throw(newState, "Invalid destination")
     ELSE IF count = 0 THEN IncIP(newState)
     ELSE
       LET value == mask16(newState.registers[dest])
           shift == Min(count, 16)
           carry == Bit(value, shift - 1) = 1
           result == mask16(value \div Pow2(shift))
           overflow == IF count = 1
                         THEN (IF Bit(value, 15) = 1 THEN "true" ELSE "false")
                         ELSE Null
       IN IncIP([newState EXCEPT
                   !.registers[dest] = result,
                   !.registers.FLAGS =
                       setFlagsShift(result, carry, overflow, newState.registers.FLAGS)])

ExecSAR(newState, operands) ==
  LET dest == parseRegister(operands[1])
      count == shiftCount(newState, operands)
  IN IF dest = "" THEN Throw(newState, "Invalid destination")
     ELSE IF count = 0 THEN IncIP(newState)
     ELSE
       LET value == mask16(newState.registers[dest])
           signed == IF Bit(value, 15) = 1 THEN value - (WORD_MASK + 1) ELSE value
           shift == Min(count, 16)
           carry == Bit(value, shift - 1) = 1
           result == mask16(signed \div Pow2(shift))
           overflow == IF count = 1 THEN "false" ELSE Null
       IN IncIP([newState EXCEPT
                   !.registers[dest] = result,
                   !.registers.FLAGS =
                       setFlagsShift(result, carry, overflow, newState.registers.FLAGS)])

\* variant: PUSH lowers SP by one byte
ExecPUSH_byOne(newState, operands) ==
  LET srcReg == parseRegister(operands[1])
      srcMem == parseMemoryOperand(operands[1], newState.registers)
  IN IF srcReg = "" /\ srcMem = NoAddress THEN Throw(newState, "Invalid source")
     ELSE IF srcReg = "" /\ ~inBoundsWord(srcMem) THEN Throw(newState, "Memory read out of bounds")
     ELSE
       LET value == IF srcReg # "" THEN newState.registers[srcReg]
                    ELSE readWord(newState, srcMem)
           nextSp == newState.registers.SP - 1
           moved == [newState EXCEPT !.registers.SP = nextSp]
       IN IF nextSp < 0 THEN Throw(newState, "Stack overflow")
          ELSE IF ~inBoundsWord(nextSp) THEN Throw(moved, "Memory write out of bounds")
          ELSE IncIP(writeWord(moved, nextSp, value))

ExecPUSH(newState, operands) ==
  LET srcReg == parseRegister(operands[1])
      srcMem == parseMemoryOperand(operands[1], newState.registers)
  IN IF srcReg = "" /\ srcMem = NoAddress THEN Throw(newState, "Invalid source")
     ELSE IF srcReg = "" /\ ~inBoundsWord(srcMem) THEN Throw(newState, "Memory read out of bounds")
     ELSE
       LET value == IF srcReg # "" THEN newState.registers[srcReg]
                    ELSE readWord(newState, srcMem)
           nextSp == newState.registers.SP - 2
           moved == [newState EXCEPT !.registers.SP = nextSp]
       IN IF nextSp < 0 THEN Throw(newState, "Stack overflow")
          ELSE IF ~inBoundsWord(nextSp) THEN Throw(moved, "Memory write out of bounds")
          ELSE IncIP(writeWord(moved, nextSp, value))

\* variant: POP leaves SP where it was
ExecPOP_leavingSP(newState, operands) ==
  LET destReg == parseRegister(operands[1])
      destMem == parseMemoryOperand(operands[1], newState.registers)
      sp == newState.registers.SP
  IN IF destReg = "" /\ destMem = NoAddress THEN Throw(newState, "Invalid destination")
     ELSE IF ~inBoundsWord(sp) THEN Throw(newState, "Memory read out of bounds")
     ELSE
       LET val == readWord(newState, sp)
       IN IF destReg # ""
            THEN IncIP([newState EXCEPT !.registers[destReg] = val])
            ELSE IF ~inBoundsWord(destMem)
              THEN Throw(newState, "Memory write out of bounds")
              ELSE IncIP(writeWord(newState, destMem, val))

ExecPOP(newState, operands) ==
  LET destReg == parseRegister(operands[1])
      destMem == parseMemoryOperand(operands[1], newState.registers)
      sp == newState.registers.SP
  IN IF destReg = "" /\ destMem = NoAddress THEN Throw(newState, "Invalid destination")
     ELSE IF ~inBoundsWord(sp) THEN Throw(newState, "Memory read out of bounds")
     ELSE
       LET val == readWord(newState, sp)
       IN IF destReg # ""
            THEN IncIP([[newState EXCEPT !.registers[destReg] = val]
                          EXCEPT !.registers.SP = @ + 2])
            ELSE IF ~inBoundsWord(destMem)
              THEN Throw(newState, "Memory write out of bounds")
              ELSE IncIP([writeWord(newState, destMem, val) EXCEPT !.registers.SP = @ + 2])

\* labels.get(operands[0].trim().toUpperCase())
hasLabel(labels, operand) ==
  operand.kind = "label" /\ toUpperCase(operand.name) \in DOMAIN labels

\* labels.get of a label that is there
labelAddress(labels, operand) == labels[toUpperCase(operand.name)]

\* variant: JMP resolves labels only
ExecJMP_labelOnly(newState, operands, labels) ==
  IF hasLabel(labels, operands[1])
    THEN [newState EXCEPT !.registers.IP = labelAddress(labels, operands[1])]
    ELSE Throw(newState, "Unknown label")

ExecJMP(newState, operands, labels) ==
  IF hasLabel(labels, operands[1])
    THEN [newState EXCEPT !.registers.IP = labelAddress(labels, operands[1])]
    ELSE IF isImmediate(operands[1])
      THEN [newState EXCEPT !.registers.IP = parseImmediate(operands[1])]
      ELSE Throw(newState, "Unknown label")

\* variant: the jump is taken when its condition fails
ExecJcc_inverted(newState, operands, labels, taken) ==
  IF ~taken
    THEN (IF hasLabel(labels, operands[1])
            THEN [newState EXCEPT !.registers.IP = labelAddress(labels, operands[1])]
            ELSE Throw(newState, "Unknown label"))
    ELSE IncIP(newState)

\* the body shared by every conditional jump
ExecJcc(newState, operands, labels, taken) ==
  IF taken
    THEN (IF hasLabel(labels, operands[1])
            THEN [newState EXCEPT !.registers.IP = labelAddress(labels, operands[1])]
            ELSE Throw(newState, "Unknown label"))
    ELSE IncIP(newState)

\* variant: HLT also advances IP
ExecHLT_advancing(newState) == IncIP([newState EXCEPT !.halted = TRUE])

ExecHLT(newState) == [newState EXCEPT !.halted = TRUE]

\* opcodes of the switch that the programs of this model use
ImplementedOpcodes ==
  {"MOV", "ADD", "ADC", "SUB", "SBB", "DIV", "SHL", "SAL", "SHR", "SAR", "CMP",
   "INC", "DEC", "PUSH", "POP", "JMP", "JE", "JZ", "JNE", "JNZ", "HLT", "NOP",
   "OUT", "OUTC", "CLC", "STC", "AND", "OR", "XOR", "NOT", "NEG", "JL", "JNGE", "JG", "JNLE", "JLE",
   "JNG", "JGE", "JNL", "JC", "JB", "JNAE", "JNC", "JAE", "JNB", "JS", "JNS",
   "JO", "JNO"}

\* opcodes the assembler accepts but the switch has no case for
UnimplementedOpcodes == {"CALL", "RET", "INT", "IRET", "IN", "OUTP"}

executeInstruction(state, instruction, labels) ==
  LET opcode == instruction.opcode
      operands == instruction.operands
      flags == getFlags(state.registers.FLAGS)
  IN CASE opcode = "MOV" -> ExecMOV(state, operands)
       [] opcode = "ADD" -> ExecADD(state, operands)
       [] opcode = "ADC" -> ExecADC(state, operands)
       [] opcode = "SUB" -> ExecSUB(state, operands)
       [] opcode = "SBB" -> ExecSBB(state, operands)
       [] opcode = "DIV" -> ExecDIV(state, operands)
       [] opcode \in {"SHL", "SAL"} -> ExecSHL(state, operands)
       [] opcode = "SHR" -> ExecSHR(state, operands)
       [] opcode = "SAR" -> ExecSAR(state, operands)
       [] opcode = "AND" -> ExecAND(state, operands)
       [] opcode = "OR" -> ExecOR(state, operands)
       [] opcode = "XOR" -> ExecXOR(state, operands)
       [] opcode = "NOT" -> ExecNOT(state, operands)
       [] opcode = "NEG" -> ExecNEG(state, operands)
       [] opcode = "CMP" -> ExecCMP(state, operands)
       [] opcode = "INC" -> ExecINC(state, operands)
       [] opcode = "DEC" -> ExecDEC(state, operands)
       [] opcode = "PUSH" -> ExecPUSH(state, operands)
       [] opcode = "POP" -> ExecPOP(state, operands)
       [] opcode = "JMP" -> ExecJMP(state, operands, labels)
       [] opcode \in {"JE", "JZ"} -> ExecJcc(state, operands, labels, flags.ZF)
       [] opcode \in {"JNE", "JNZ"} -> ExecJcc(state, operands, labels, ~flags.ZF)
       [] opcode \in {"JL", "JNGE"} ->
            ExecJcc(state, operands, labels, flags.SF # flags.OF)
       [] opcode \in {"JG", "JNLE"} ->
            ExecJcc(state, operands, labels, ~flags.ZF /\ flags.SF = flags.OF)
       [] opcode \in {"JLE", "JNG"} ->
            ExecJcc(state, operands, labels, flags.ZF \/ flags.SF # flags.OF)
       [] opcode \in {"JGE", "JNL"} ->
            ExecJcc(state, operands, labels, flags.SF = flags.OF)
       [] opcode \in {"JC", "JB", "JNAE"} -> ExecJcc(state, operands, labels, flags.CF)
       [] opcode \in {"JNC", "JAE", "JNB"} -> ExecJcc(state, operands, labels, ~flags.CF)
       [] opcode = "JS" -> ExecJcc(state, operands, labels, flags.SF)
       [] opcode = "JNS" -> ExecJcc(state, operands, labels, ~flags.SF)
       [] opcode = "JO" -> ExecJcc(state, operands, labels, flags.OF)
       [] opcode = "JNO" -> ExecJcc(state, operands, labels, ~flags.OF)
       [] opcode = "HLT" -> ExecHLT(state)
       [] opcode \in {"NOP", "OUT", "OUTC"} -> IncIP(state)
       [] opcode = "CLC" ->
            IncIP([state EXCEPT !.registers.FLAGS = ClearFlag(@, FLAG_CF)])
       [] opcode = "STC" ->
            IncIP([state EXCEPT !.registers.FLAGS = SetFlag(@, FLAG_CF)])
       [] opcode \in UnimplementedOpcodes ->
            Throw(state, "Unknown instruction: " \o opcode)

(***************************************************************************)
(* Per-step diagnostics (src/src/lab/debugger.ts) and the cycle table.      *)
(* Address lists are kept as sets: the source de-duplicates and sorts them  *)
(* and only membership is ever read.                                        *)
(***************************************************************************)
OPCODE_CYCLES ==
  [opcode \in {"MOV", "INC", "DEC", "AND", "OR", "XOR", "NOT", "CLC", "STC", "CMC"} |-> 2]
    @@ [opcode \in {"ADD", "ADC", "SUB", "SBB", "NEG", "CMP"} |-> 3]
    @@ [opcode \in {"SHL", "SAL", "SHR", "SAR", "PUSH", "JMP", "JE", "JZ", "JNE",
                    "JNZ", "JL", "JNGE", "JG", "JNLE", "JLE", "JNG", "JGE", "JNL",
                    "JC", "JB", "JNAE", "JNC", "JAE", "JNB", "JS", "JNS", "JO",
                    "JNO"} |-> 4]
    @@ [opcode \in {"POP", "OUT", "OUTC"} |-> 5]
    @@ [opcode \in {"IN", "OUTP", "RET"} |-> 8]
    @@ [opcode \in {"NOP", "HLT"} |-> 1]
    @@ ("MUL" :> 12) @@ ("DIV" :> 18) @@ ("MOD" :> 10) @@ ("CALL" :> 7)
    @@ ("INT" :> 14) @@ ("IRET" :> 16)

estimateInstructionCycles(instruction) ==
  IF instruction.opcode \in DOMAIN OPCODE_CYCLES
    THEN OPCODE_CYCLES[instruction.opcode]
    ELSE DEFAULT_CYCLES

captureInstructionOutput(state, instruction) ==
  LET opcode == instruction.opcode
      register == IF Len(instruction.operands) >= 1
                    THEN parseRegister(instruction.operands[1]) ELSE ""
  IN IF opcode # "OUT" /\ opcode # "OUTC" THEN << >>
     ELSE IF register = "" THEN << >>
     ELSE IF opcode = "OUT"
       THEN << [type |-> "number", value |-> state.registers[register]] >>
       ELSE << [type |-> "char", value |-> state.registers[register] % 256] >>

\* the word addresses whose bytes differ, lowest first, at most
\* MAX_MEMORY_WORD_CHANGES of them
diffMemoryWords(previousMemory, nextMemory) ==
  LET differing == {i \in (DOMAIN previousMemory) \cup (DOMAIN nextMemory) :
                      readByte(previousMemory, i) # readByte(nextMemory, i)}
      words == {i - (i % 2) : i \in differing}
  IN {w \in words : Cardinality({v \in words : v < w}) < MAX_MEMORY_WORD_CHANGES}

normalizeAddress(address) ==
  IF address < 0 THEN 0
  ELSE IF address >= MEMORY_SIZE THEN MEMORY_SIZE - 1
  ELSE address - (address % 2)

\* pushUnique of a possibly-null address: the set it adds
Pushed(address) == IF address = NoAddress THEN {} ELSE {normalizeAddress(address)}

detectMemoryAccesses(state, instruction) ==
  LET opcode == instruction.opcode
      operands == instruction.operands
      mem0 == IF Len(operands) >= 1
                THEN parseMemoryOperand(operands[1], state.registers) ELSE NoAddress
      mem1 == IF Len(operands) >= 2
                THEN parseMemoryOperand(operands[2], state.registers) ELSE NoAddress
      sp == state.registers.SP
      \* normalizeAddress of a stack slot: the slot is never null
      slot(a) == {normalizeAddress(a)}
      port(k) == IF Len(operands) >= k
                   THEN {normalizeAddress(768 +
                           ((IF isImmediate(operands[k])
                               THEN parseImmediate(operands[k]) ELSE 0) % 256) * 2)}
                   ELSE {}
  IN CASE opcode = "MOV" -> [reads |-> Pushed(mem1), writes |-> Pushed(mem0)]
       [] opcode \in {"ADD", "ADC", "SUB", "SBB", "CMP", "AND", "OR", "XOR",
                      "MUL", "DIV", "MOD"} ->
            [reads |-> Pushed(IF mem1 # NoAddress THEN mem1 ELSE mem0), writes |-> {}]
       [] opcode = "PUSH" -> [reads |-> Pushed(mem0), writes |-> slot(sp - 2)]
       [] opcode = "POP" -> [reads |-> slot(sp), writes |-> Pushed(mem0)]
       [] opcode = "CALL" -> [reads |-> {}, writes |-> slot(sp - 2)]
       [] opcode = "RET" -> [reads |-> slot(sp), writes |-> {}]
       [] opcode = "INT" -> [reads |-> {}, writes |-> slot(sp - 2) \cup slot(sp - 4)]
       [] opcode = "IRET" -> [reads |-> slot(sp) \cup slot(sp + 2), writes |-> {}]
       [] opcode = "IN" -> [reads |-> port(2), writes |-> {}]
       [] opcode = "OUTP" -> [reads |-> {}, writes |-> port(1)]
       [] OTHER -> [reads |-> Pushed(mem0) \cup Pushed(mem1), writes |-> {}]

\* the record executeStepWithDiagnostics returns, from the values it computed
StepDiagnostics(state, instruction, stepNumber, memoryAccesses, output, nextState) ==
  LET changedMemoryWords == diffMemoryWords(state.memory, nextState.memory)
      cycles == estimateInstructionCycles(instruction)
  IN [nextState |-> nextState,
      output |-> output,
      changedMemoryWords |-> changedMemoryWords,
      memoryReads |-> memoryAccesses.reads,
      memoryWrites |-> memoryAccesses.writes,
      cycles |-> cycles,
      traceEntry |-> [step |-> stepNumber,
                      instructionAddress |-> state.registers.IP,
                      instructionText |-> instruction.opcode,
                      ipBefore |-> state.registers.IP,
                      ipAfter |-> nextState.registers.IP,
                      changedMemoryWords |-> changedMemoryWords,
                      memoryReads |-> memoryAccesses.reads,
                      memoryWrites |-> memoryAccesses.writes,
                      output |-> output,
                      cycles |-> cycles]]

executeStepWithDiagnostics(state, instruction, labels, stepNumber) ==
  StepDiagnostics(state, instruction, stepNumber,
                  detectMemoryAccesses(state, instruction),
                  captureInstructionOutput(state, instruction),
                  executeInstruction(state, instruction, labels))

(***************************************************************************)
(* Performance record and snapshots (src/src/lab/snapshots.ts).  The        *)
(* wall-clock fields (timestamps, elapsed time, the load average computed   *)
(* from them) are not part of the model.                                    *)
(***************************************************************************)
createInitialPerformanceMetrics == [instructionsExecuted |-> 0, totalCycles |-> 0]

updatePerformanceMetrics(previous, cycles) ==
  [instructionsExecuted |-> previous.instructionsExecuted + 1,
   totalCycles |-> previous.totalCycles + cycles]

cloneCPUState(state) ==
  [registers |-> state.registers, memory |-> state.memory,
   halted |-> state.halted, error |-> state.error]

createExecutionSnapshot(state, output, traceLength, perf) ==
  [state |-> cloneCPUState(state), output |-> output,
   traceLength |-> traceLength, perf |-> perf]

restoreExecutionSnapshot(snapshot) ==
  createExecutionSnapshot(snapshot.state, snapshot.output, snapshot.traceLength,
                          snapshot.perf)

\* Array.prototype.slice(0, end) on a sequence
Slice(seq, end) == SubSeq(seq, 1, Min(Max(end, 0), Len(seq)))

(***************************************************************************)
(* Assembled programs the debugger is opened on.  Each is the output of the *)
(* assembler for the text in its comment (the assembler appends the final   *)
(* HLT when the text does not end with one).                                *)
(***************************************************************************)
Ins(opcode, operands, address) ==
  [opcode |-> opcode, operands |-> operands, address |-> address]

\*     MOV [0x0100], SP / MOV BX, [0x0100] / HLT
MemoryProgram ==
  [instructions |-> << Ins("MOV", << OpMemImm(256), OpReg("SP") >>, 0),
                       Ins("MOV", << OpReg("BX"), OpMemImm(256) >>, 1),
                       Ins("HLT", << >>, 2) >>,
   labels |-> [l \in {} |-> 0]]

\* SPIN: MOV [0x0100], BX / JMP SPIN        (never halts)
SpinProgram ==
  [instructions |-> << Ins("MOV", << OpMemImm(256), OpReg("BX") >>, 0),
                       Ins("JMP", << OpLabel("SPIN") >>, 1),
                       Ins("HLT", << >>, 2) >>,
   labels |-> [l \in {"SPIN"} |-> 0]]

\* the CALL/RET demo of src/src/lab/demos.ts
CallProgram ==
  [instructions |-> << Ins("MOV", << OpReg("AX"), OpImm(5) >>, 0),
                       Ins("CALL", << OpLabel("DOUBLE_VALUE") >>, 1),
                       Ins("OUT", << OpReg("AX") >>, 2),
                       Ins("HLT", << >>, 3),
                       Ins("ADD", << OpReg("AX"), OpReg("AX") >>, 4),
                       Ins("RET", << >>, 5),
                       Ins("HLT", << >>, 6) >>,
   labels |-> [l \in {"DOUBLE_VALUE"} |-> 4]]

\*     OUT SP / JMP 9 / HLT                 (IP leaves the program)
LeaveProgram ==
  [instructions |-> << Ins("OUT", << OpReg("SP") >>, 0),
                       Ins("JMP", << OpImm(9) >>, 1),
                       Ins("HLT", << >>, 2) >>,
   labels |-> [l \in {} |-> 0]]

Programs == << MemoryProgram, SpinProgram, CallProgram, LeaveProgram >>

\*     MOV AX, 321 / OUT AX / OUTC AX / HLT
OutputProgram ==
  [instructions |-> << Ins("MOV", << OpReg("AX"), OpImm(321) >>, 0),
                       Ins("OUT", << OpReg("AX") >>, 1),
                       Ins("OUTC", << OpReg("AX") >>, 2),
                       Ins("HLT", << >>, 3) >>,
   labels |-> [l \in {} |-> 0]]

\* every program a session of the debugger is opened on in this model
DebuggedPrograms == Programs \o << OutputProgram >>

(***************************************************************************)
(* Inputs of the handlers.                                                  *)
(***************************************************************************)
\* instruction lines whose breakpoint gutter is clicked
BreakpointInputs == {1}

\* payloads of the watchpoint form; word 0x0100 is the one the programs
\* touch: the first two ranges overlap it at its last and first byte, the
\* third starts right after it
WatchInputs ==
  { [address |-> 257, size |-> 0, type |-> "write"],
    [address |-> 255, size |-> 2, type |-> "read"],
    [address |-> 258, size |-> 2, type |-> "change"] }

\* vectors typed into the interrupt panel
VectorInputs == {1}

(***************************************************************************)
(* State of the debugger (the useState cells of App that the handlers       *)
(* below read or write).  lastOp records which handler ran last and what    *)
(* its loop did (the local variables steps and the reason it left the       *)
(* loop); the program never reads it.                                       *)
(***************************************************************************)
VARIABLES debugProgram, debugState, previousDebugState, debugOutput,
          debugSnapshots, timelineCursor, traceLog, breakpoints, watchpoints,
          lastOp

\* the editors and the run outside the debugger: the assembly text and the
\* program assembled from it, the source text and its compilation, the
\* state and the output of runProgram, the exported replay, the single
\* step that is waiting for its pipeline animation, and the named snapshots
\* of the session, newest first
VARIABLES asmCode, assembled, sourceCode, compilationResult, runState,
          runOutput, replayFile, pendingStep, savedSnapshots

editorVars ==
  << asmCode, assembled, sourceCode, compilationResult, runState, runOutput,
     replayFile >>

toolVars == << editorVars, pendingStep, savedSnapshots >>

vars == << debugProgram, debugState, previousDebugState, debugOutput,
           debugSnapshots, timelineCursor, traceLog, breakpoints, watchpoints,
           lastOp, toolVars >>

\* nothing is open in the editors, nothing has run, nothing is exported;
\* each of these variables is << >> or holds its one value as << value >>
ToolsIdle ==
  /\ asmCode = << >>
  /\ assembled = << >>
  /\ sourceCode = << >>
  /\ compilationResult = << >>
  /\ runState = << >>
  /\ runOutput = << >>
  /\ replayFile = << >>
  /\ pendingStep = << >>
  /\ savedSnapshots = << >>

Program == DebuggedPrograms[debugProgram]

InstructionAt(ip) == Program.instructions[ip + 1]

IPOutOfBounds(ip) == ip < 0 \/ ip >= Len(Program.instructions)

\* kind: the handler; arg: its argument, or for a stepping handler the
\* number of snapshots beyond the cursor when it started; steps and stop:
\* the instructions it executed and why it stopped; pure: only single
\* steps, seeks and settings since the last reset
Op(kind, arg, steps, stop) ==
  [kind |-> kind, arg |-> arg, steps |-> steps, stop |-> stop,
   pure |-> IF kind \in {"init", "reset"} THEN TRUE
            ELSE lastOp.pure /\ kind \in {"into", "over", "seek", "back", "config"}]

\* variant: only the first byte of the word is compared
overlapsWordRange_firstByte(wordAddress, watchAddress, watchSize) ==
  wordAddress < watchAddress + Max(1, watchSize) /\ wordAddress + 1 > watchAddress

overlapsWordRange(wordAddress, watchAddress, watchSize) ==
  LET wordStart == wordAddress
      wordEnd == wordAddress + 2
      rangeStart == watchAddress
      rangeEnd == watchAddress + Max(1, watchSize)
  IN wordStart < rangeEnd /\ wordEnd > rangeStart

\* getTriggeredWatchpoint(...) !== null
getTriggeredWatchpoint(memoryReads, memoryWrites, changedWords) ==
  \E i \in 1..Len(watchpoints) :
    /\ watchpoints[i].enabled
    /\ LET addressesToCheck ==
             IF watchpoints[i].type = "read" THEN memoryReads
             ELSE IF watchpoints[i].type = "write" THEN memoryWrites
             ELSE changedWords
       IN \E address \in addressesToCheck :
            overlapsWordRange(address, watchpoints[i].address, watchpoints[i].size)

\* initializeDebugSession / debugReset: the timeline of a fresh session
InitialSnapshot ==
  createExecutionSnapshot(createInitialState, << >>, 0, createInitialPerformanceMetrics)

Init ==
  /\ debugProgram \in 1..Len(Programs)
  /\ ToolsIdle
  /\ debugState = createInitialState
  /\ previousDebugState = << >>
  /\ debugOutput = << >>
  /\ debugSnapshots = << InitialSnapshot >>
  /\ timelineCursor = 0
  /\ traceLog = << >>
  /\ breakpoints = {}
  /\ watchpoints = << >>
  /\ lastOp = Op("init", 0, 0, "done")

safeTimelineIndex == Max(0, Min(timelineCursor, Len(debugSnapshots) - 1))

\* snapshots beyond the cursor, which a new step abandons
Abandoned == Len(debugSnapshots) - 1 - safeTimelineIndex

\* variant: execution resumes from the newest snapshot, not the cursor's
activeSnapshot_atTip == restoreExecutionSnapshot(debugSnapshots[Len(debugSnapshots)])

activeSnapshot == restoreExecutionSnapshot(debugSnapshots[safeTimelineIndex + 1])

(***************************************************************************)
(* executeCurrentInstruction (Step Into, and Step Over on a non-CALL).      *)
(***************************************************************************)
\* variant: the snapshots beyond the cursor are kept
branchSnapshots_keepingFuture == debugSnapshots

branchSnapshots == Slice(debugSnapshots, safeTimelineIndex + 1)

branchTrace == Slice(traceLog, activeSnapshot.traceLength)

\* the values a single step computes from the diagnostics of its
\* instruction before its setState calls
Recorded(snapshots, trace, active, diagnostics) ==
  [currentState |-> active.state,
   nextState |-> diagnostics.nextState,
   nextOutput |-> active.output \o diagnostics.output,
   nextTrace |-> Append(trace, diagnostics.traceEntry),
   nextSnapshots |->
     Append(snapshots,
            createExecutionSnapshot(diagnostics.nextState,
                                    active.output \o diagnostics.output,
                                    Len(trace) + 1,
                                    updatePerformanceMetrics(active.perf,
                                                             diagnostics.cycles)))]

\* executeCurrentInstruction up to its setState calls
StepResult ==
  Recorded(branchSnapshots, branchTrace, activeSnapshot,
           executeStepWithDiagnostics(activeSnapshot.state,
                                      InstructionAt(activeSnapshot.state.registers.IP),
                                      Program.labels, Len(branchTrace) + 1))

\* the setState calls that close a single step
PublishStep(result, kind, arg) ==
  /\ Len(result.nextSnapshots) <= MaxSnapshots
  /\ previousDebugState' = << result.currentState >>
  /\ debugState' = result.nextState
  /\ debugOutput' = result.nextOutput
  /\ traceLog' = result.nextTrace
  /\ debugSnapshots' = result.nextSnapshots
  /\ timelineCursor' = Len(result.nextSnapshots) - 1
  /\ lastOp' = Op(kind, arg, 1, "done")
  /\ UNCHANGED << toolVars, debugProgram, breakpoints, watchpoints >>

\* runDebugStep: the guard, then executeCurrentInstruction once the
\* pipeline animation is over
runDebugStep(stepLabel) ==
  IF debugState.halted
    THEN /\ lastOp' = Op(stepLabel, 0, 0, "noop")
         /\ UNCHANGED << toolVars, debugProgram, debugState, previousDebugState, debugOutput,
                         debugSnapshots, timelineCursor, traceLog, breakpoints,
                         watchpoints >>
    ELSE IF IPOutOfBounds(activeSnapshot.state.registers.IP)
      THEN /\ debugState' = [debugState EXCEPT !.halted = TRUE,
                                                !.error = "IP out of bounds"]
           /\ lastOp' = Op(stepLabel, 0, 0, "oob")
           /\ UNCHANGED << toolVars, debugProgram, previousDebugState, debugOutput,
                           debugSnapshots, timelineCursor, traceLog, breakpoints,
                           watchpoints >>
      ELSE PublishStep(StepResult, stepLabel, Abandoned)

debugStepInto == runDebugStep("into")

(***************************************************************************)
(* The run loops of debugRunToEnd (Continue) and debugStepOver.             *)
(***************************************************************************)
\* the local variables of both handlers before their while loop
RunStart ==
  [currentState |-> activeSnapshot.state,
   previousState |-> IF safeTimelineIndex > 0
                       THEN << restoreExecutionSnapshot(
                                 debugSnapshots[safeTimelineIndex]).state >>
                       ELSE << >>,
   currentOutput |-> activeSnapshot.output,
   currentTrace |-> Slice(traceLog, activeSnapshot.traceLength),
   currentPerf |-> activeSnapshot.perf,
   currentSnapshots |-> Slice(debugSnapshots, safeTimelineIndex + 1),
   steps |-> 0,
   callDepth |-> 0,
   watchpointStatus |-> FALSE,
   stop |-> "running"]

\* one pass through the part of the loop body both handlers share, up to
\* the getTriggeredWatchpoint call (watchpointStatus !== null)
Advance(run, diagnostics) ==
  [run EXCEPT !.currentPerf = updatePerformanceMetrics(@, diagnostics.cycles),
              !.currentTrace = Append(@, diagnostics.traceEntry),
              !.currentOutput = @ \o diagnostics.output,
              !.previousState = << run.currentState >>,
              !.currentState = diagnostics.nextState,
              !.currentSnapshots =
                 Append(@, createExecutionSnapshot(
                             diagnostics.nextState,
                             run.currentOutput \o diagnostics.output,
                             Len(run.currentTrace) + 1,
                             updatePerformanceMetrics(run.currentPerf,
                                                      diagnostics.cycles))),
              !.steps = @ + 1,
              !.watchpointStatus =
                 getTriggeredWatchpoint(diagnostics.memoryReads,
                                        diagnostics.memoryWrites,
                                        diagnostics.changedMemoryWords)]

Diagnose(run) ==
  executeStepWithDiagnostics(run.currentState,
                             InstructionAt(run.currentState.registers.IP),
                             Program.labels, Len(run.currentTrace) + 1)

HaltOutOfBounds(run) ==
  [run EXCEPT !.currentState = [@ EXCEPT !.halted = TRUE, !.error = "IP out of bounds"],
              !.stop = "oob"]

\* variant: Continue steps off the breakpoint it starts on
ContinuePausesBefore_afterFirstStep(ip, steps) == steps > 0 /\ ip \in breakpoints

\* debugRunToEnd: `if (breakpoints.has(ip))` at the top of the loop body
ContinuePausesBefore(ip, steps) == ip \in breakpoints

\* variant: Step Over pauses on a breakpoint before its first step
StepOverPausesBefore_atStart(ip, steps) == ip \in breakpoints

\* debugStepOver: `if (steps > 0 && breakpoints.has(ip))`
StepOverPausesBefore(ip, steps) == steps > 0 /\ ip \in breakpoints

\* variant: the loop admits one step beyond the cap
LoopContinues_inclusive(halted, steps) == ~halted /\ steps <= MAX_DEBUG_STEPS

\* `while (!currentState.halted && steps < MAX_DEBUG_STEPS)`
LoopContinues(halted, steps) == ~halted /\ steps < MAX_DEBUG_STEPS

RECURSIVE ContinueLoop(_)
\* debugRunToEnd: the end of the loop body, after the step was recorded
ContinueAfterStep(next) ==
  IF next.watchpointStatus THEN [next EXCEPT !.stop = "watchpoint"]
  ELSE IF next.currentState.registers.IP \in breakpoints
    THEN [next EXCEPT !.stop = "breakpoint"]
  ELSE ContinueLoop(next)

ContinueLoop(run) ==
  IF ~LoopContinues(run.currentState.halted, run.steps)
    THEN [run EXCEPT !.stop = IF run.currentState.halted THEN "halted" ELSE "cap"]
    ELSE IF IPOutOfBounds(run.currentState.registers.IP) THEN HaltOutOfBounds(run)
    ELSE IF ContinuePausesBefore(run.currentState.registers.IP, run.steps)
      THEN [run EXCEPT !.stop = "breakpoint"]
    ELSE ContinueAfterStep(Advance(run, Diagnose(run)))

\* debugStepOver: callDepth after the instruction with this opcode
TrackCall(run, opcode) ==
  [run EXCEPT !.callDepth = IF opcode = "CALL" THEN @ + 1
                            ELSE IF opcode = "RET" THEN Max(0, @ - 1)
                            ELSE @]

RECURSIVE StepOverLoop(_, _)
\* debugStepOver: the end of the loop body, after the step was recorded
StepOverAfterStep(next, returnAddress) ==
  IF next.watchpointStatus THEN [next EXCEPT !.stop = "watchpoint"]
  ELSE IF next.callDepth = 0 /\ next.currentState.registers.IP = returnAddress
    THEN [next EXCEPT !.stop = "returned"]
  ELSE StepOverLoop(next, returnAddress)

StepOverLoop(run, returnAddress) ==
  IF ~LoopContinues(run.currentState.halted, run.steps)
    THEN [run EXCEPT !.stop = IF run.currentState.halted THEN "halted" ELSE "cap"]
    ELSE IF IPOutOfBounds(run.currentState.registers.IP) THEN HaltOutOfBounds(run)
    ELSE IF StepOverPausesBefore(run.currentState.registers.IP, run.steps)
      THEN [run EXCEPT !.stop = "breakpoint"]
    ELSE StepOverAfterStep(
           TrackCall(Advance(run, Diagnose(run)),
                     InstructionAt(run.currentState.registers.IP).opcode),
           returnAddress)

\* `lastSnapshotState !== currentState` compares object references.  Every
\* snapshot holds a clone made by cloneCPUState, and currentState is either
\* the clone made by restoreExecutionSnapshot, the object returned by
\* executeInstruction, or a fresh spread of one of them: the two are never
\* the same object.
isSameStateObject(lastSnapshotState, currentState) == FALSE

\* the code after the while loop of both handlers
Finish(run) ==
  LET capped == IF run.steps >= MAX_DEBUG_STEPS /\ ~run.currentState.halted
                  THEN [run EXCEPT !.currentState =
                          [@ EXCEPT !.halted = TRUE,
                                    !.error = "Maximum steps exceeded (infinite loop?)"]]
                  ELSE run
      lastSnapshotState == capped.currentSnapshots[Len(capped.currentSnapshots)].state
  IN IF ~isSameStateObject(lastSnapshotState, capped.currentState)
       THEN [capped EXCEPT !.currentSnapshots =
               Append(@, createExecutionSnapshot(capped.currentState,
                                                 capped.currentOutput,
                                                 Len(capped.currentTrace),
                                                 capped.currentPerf))]
       ELSE capped

\* the setState calls that close both handlers
Publish(run, kind) ==
  /\ Len(run.currentSnapshots) <= MaxSnapshots
  /\ previousDebugState' = run.previousState
  /\ debugState' = run.currentState
  /\ debugOutput' = run.currentOutput
  /\ traceLog' = run.currentTrace
  /\ debugSnapshots' = run.currentSnapshots
  /\ timelineCursor' = Len(run.currentSnapshots) - 1
  /\ lastOp' = Op(kind, Abandoned, run.steps, run.stop)
  /\ UNCHANGED << toolVars, debugProgram, breakpoints, watchpoints >>

debugRunToEnd ==
  IF debugState.halted
    THEN /\ lastOp' = Op("continue", 0, 0, "noop")
         /\ UNCHANGED << toolVars, debugProgram, debugState, previousDebugState, debugOutput,
                         debugSnapshots, timelineCursor, traceLog, breakpoints,
                         watchpoints >>
    ELSE Publish(Finish(ContinueLoop(RunStart)), "continue")

debugStepOver ==
  IF debugState.halted
    THEN /\ lastOp' = Op("over", 0, 0, "noop")
         /\ UNCHANGED << toolVars, debugProgram, debugState, previousDebugState, debugOutput,
                         debugSnapshots, timelineCursor, traceLog, breakpoints,
                         watchpoints >>
    ELSE LET currentIp == activeSnapshot.state.registers.IP
         IN IF IPOutOfBounds(currentIp) \/ InstructionAt(currentIp).opcode # "CALL"
              THEN runDebugStep("over")
              ELSE Publish(Finish(StepOverLoop(RunStart, currentIp + 1)), "overcall")

(***************************************************************************)
(* Seek, Step Back, Reset, the manual interrupt trigger, breakpoints and    *)
(* watchpoints.                                                             *)
(***************************************************************************)
\* the cursor seekTimelineToIndex restores
safeIndex(targetIndex) == Max(0, Min(targetIndex, Len(debugSnapshots) - 1))

\* variant: the previous state is taken from the snapshot sought to
SeekPrevious_current(index) ==
  IF index > 0 THEN << restoreExecutionSnapshot(debugSnapshots[index + 1]).state >>
  ELSE << >>

\* the previous state seekTimelineToIndex publishes
SeekPrevious(index) ==
  IF index > 0 THEN << restoreExecutionSnapshot(debugSnapshots[index]).state >>
  ELSE << >>

seekTimelineToIndex(targetIndex, kind) ==
  LET restoredSnapshot == restoreExecutionSnapshot(debugSnapshots[safeIndex(targetIndex) + 1])
  IN /\ timelineCursor' = safeIndex(targetIndex)
     /\ debugState' = restoredSnapshot.state
     /\ previousDebugState' = SeekPrevious(safeIndex(targetIndex))
     /\ debugOutput' = restoredSnapshot.output
     /\ lastOp' = Op(kind, targetIndex, 0, "done")
     /\ UNCHANGED << toolVars, debugProgram, debugSnapshots, traceLog, breakpoints, watchpoints >>

Seek == \E targetIndex \in -1..Len(debugSnapshots) : seekTimelineToIndex(targetIndex, "seek")

debugStepBack ==
  IF timelineCursor <= 0
    THEN /\ lastOp' = Op("back", 0, 0, "noop")
         /\ UNCHANGED << toolVars, debugProgram, debugState, previousDebugState, debugOutput,
                         debugSnapshots, timelineCursor, traceLog, breakpoints,
                         watchpoints >>
    ELSE seekTimelineToIndex(timelineCursor - 1, "back")

debugReset ==
  /\ debugState' = createInitialState
  /\ previousDebugState' = << >>
  /\ debugOutput' = << >>
  /\ traceLog' = << >>
  /\ debugSnapshots' = << InitialSnapshot >>
  /\ timelineCursor' = 0
  /\ savedSnapshots' = << >>
  /\ lastOp' = Op("reset", 0, 0, "done")
  /\ UNCHANGED << editorVars, pendingStep, debugProgram, breakpoints, watchpoints >>

\* the instruction triggerSoftwareInterrupt synthesises
InterruptInstruction(vector, state) ==
  Ins("INT", << OpImm(vector % 256) >>, state.registers.IP)

triggerSoftwareInterrupt(vector) ==
  IF debugState.halted
    THEN /\ lastOp' = Op("int", vector, 0, "noop")
         /\ UNCHANGED << toolVars, debugProgram, debugState, previousDebugState, debugOutput,
                         debugSnapshots, timelineCursor, traceLog, breakpoints,
                         watchpoints >>
    ELSE
      PublishStep(
        Recorded(branchSnapshots, branchTrace, activeSnapshot,
                 executeStepWithDiagnostics(
                   activeSnapshot.state,
                   InterruptInstruction(vector, activeSnapshot.state),
                   Program.labels, Len(branchTrace) + 1)),
        "int", vector)

TriggerInterrupt == \E vector \in VectorInputs : triggerSoftwareInterrupt(vector)

toggleBreakpoint(address) ==
  /\ breakpoints' = IF address \in breakpoints
                      THEN breakpoints \ {address}
                      ELSE breakpoints \cup {address}
  /\ lastOp' = Op("config", 0, 0, "done")
  /\ UNCHANGED << toolVars, debugProgram, debugState, previousDebugState, debugOutput,
                  debugSnapshots, timelineCursor, traceLog, watchpoints >>

ToggleBreakpoint == \E address \in BreakpointInputs : toggleBreakpoint(address)

addWatchpoint(payload) ==
  /\ Len(watchpoints) < MaxWatchpoints
  /\ watchpoints' = Append(watchpoints,
                           [address |-> mask16(payload.address),
                            size |-> Max(1, payload.size),
                            type |-> payload.type,
                            enabled |-> TRUE])
  /\ lastOp' = Op("config", 0, 0, "done")
  /\ UNCHANGED << toolVars, debugProgram, debugState, previousDebugState, debugOutput,
                  debugSnapshots, timelineCursor, traceLog, breakpoints >>

AddWatchpoint == \E payload \in WatchInputs : addWatchpoint(payload)

toggleWatchpoint(i) ==
  /\ watchpoints' = [watchpoints EXCEPT ![i].enabled = ~@]
  /\ lastOp' = Op("config", 0, 0, "done")
  /\ UNCHANGED << toolVars, debugProgram, debugState, previousDebugState, debugOutput,
                  debugSnapshots, timelineCursor, traceLog, breakpoints >>

ToggleWatchpoint == \E i \in 1..Len(watchpoints) : toggleWatchpoint(i)

removeWatchpoint(i) ==
  /\ watchpoints' = [j \in 1..(Len(watchpoints) - 1) |->
                       IF j < i THEN watchpoints[j] ELSE watchpoints[j + 1]]
  /\ lastOp' = Op("config", 0, 0, "done")
  /\ UNCHANGED << toolVars, debugProgram, debugState, previousDebugState, debugOutput,
                  debugSnapshots, timelineCursor, traceLog, breakpoints >>

RemoveWatchpoint == \E i \in 1..Len(watchpoints) : removeWatchpoint(i)

Next ==
  \/ debugStepInto
  \/ debugStepOver
  \/ debugRunToEnd
  \/ Seek
  \/ debugStepBack
  \/ debugReset
  \/ TriggerInterrupt
  \/ ToggleBreakpoint
  \/ AddWatchpoint
  \/ ToggleWatchpoint
  \/ RemoveWatchpoint

Spec == Init /\ [][Next]_vars

\* the debugger without the manual interrupt trigger
NextProgramOnly ==
  \/ debugStepInto
  \/ debugStepOver
  \/ debugRunToEnd
  \/ Seek
  \/ debugStepBack
  \/ debugReset
  \/ ToggleBreakpoint
  \/ AddWatchpoint
  \/ ToggleWatchpoint
  \/ RemoveWatchpoint

SpecProgramOnly == Init /\ [][NextProgramOnly]_vars

\* the debugger opened on the program that prints
InitOutput ==
  /\ debugProgram = Len(DebuggedPrograms)
  /\ ToolsIdle
  /\ debugState = createInitialState
  /\ previousDebugState = << >>
  /\ debugOutput = << >>
  /\ debugSnapshots = << InitialSnapshot >>
  /\ timelineCursor = 0
  /\ traceLog = << >>
  /\ breakpoints = {}
  /\ watchpoints = << >>
  /\ lastOp = Op("init", 0, 0, "done")

SpecOutput == InitOutput /\ [][Next]_vars

(***************************************************************************)
(* The CPU alone: executeInstruction applied to instructions an assembled   *)
(* program can hold, from states a program can reach from reset.  Here      *)
(* debugState is the CPU state and traceLog records, for every instruction  *)
(* executed, the instruction and the state it was executed in; the other    *)
(* variables of the debugger stay idle.                                     *)
(*                                                                          *)
(* Every input state is reachable from createInitialState: MOV reg, imm     *)
(* gives a register any word and leaves FLAGS alone, MOV [addr], reg stores *)
(* any word, JMP gives IP any instruction index, and each value of          *)
(* FlagInputs is what STC or one ADD leaves in FLAGS.                       *)
(***************************************************************************)
WordInputs == {0, 1, 15, 16384, 32767, 32768, 65535}

FlagInputs ==
  {0, FLAG_CF, setFlagsAdd(65535, 1, 65536), setFlagsAdd(32767, 1, 32768)}

StackInputs == {0, 1, 2, 3, 4094, 4096, 4097}

AddressInputs == {0, 4092, 4093, 65534}

ShiftCounts == {0, 1, 4, 16, 17, 31, 33}

LogicInputs == {0, 255, 32768, 65535}

\* every conditional jump the switch of executeInstruction has a case for
ConditionalJumps ==
  {"JE", "JZ", "JNE", "JNZ", "JL", "JNGE", "JG", "JNLE", "JLE", "JNG", "JGE",
   "JNL", "JC", "JB", "JNAE", "JNC", "JAE", "JNB", "JS", "JNS", "JO", "JNO"}

\* the words 0x1234 at 0, 0xFFFF at 2 and 0xABCD at 4094
InputMemory ==
  (0 :> 52) @@ (1 :> 18) @@ (2 :> 255) @@ (3 :> 255) @@ (4094 :> 205) @@ (4095 :> 171)

\* an input state, at instruction index 2 of its program
CpuInput(ax, bx, dx, sp, flags) ==
  [createInitialState EXCEPT
     !.registers.AX = ax, !.registers.BX = bx, !.registers.DX = dx,
     !.registers.SP = sp, !.registers.FLAGS = flags, !.registers.IP = 2,
     !.memory = InputMemory]

CpuInputs ==
  {CpuInput(ax, 0, 0, STACK_START, flags) : ax \in WordInputs, flags \in FlagInputs}
    \cup {CpuInput(65535, 0, 1, sp, 0) : sp \in StackInputs}
    \cup {CpuInput(48879, bx, 1, STACK_START, 0) : bx \in AddressInputs}

CpuLabels == ("START" :> 0)

\* opcode and operands of the instructions the CPU specification executes
CpuOperations ==
  {<< "MOV", << OpMemReg("BX", 2), OpReg("AX") >> >>,
   << "MOV", << OpReg("AX"), OpMemReg("BX", 2) >> >>,
   << "MOV", << OpReg("AX"), OpMemReg("BX", -2) >> >>,
   << "MOV", << OpMemImm(4095), OpReg("AX") >> >>,
   << "MOV", << OpReg("AX"), OpMemImm(4095) >> >>,
   << "MOV", << OpMemImm(69630), OpReg("AX") >> >>,
   << "MOV", << OpReg("AX"), OpMemImm(69630) >> >>,
   << "MOV", << OpReg("AX"), OpMemReg("AH", 0) >> >>,
   << "ADD", << OpReg("AX"), OpMemImm(4095) >> >>,
   << "SUB", << OpReg("AX"), OpReg("AX") >> >>,
   << "CMP", << OpReg("AX"), OpReg("AX") >> >>,
   << "CMP", << OpReg("AX"), OpReg("SP") >> >>,
   << "CMP", << OpReg("AX"), OpMemReg("BX", 2) >> >>,
   << "INC", << OpReg("AX") >> >>,
   << "DEC", << OpReg("AX") >> >>,
   << "STC", << >> >>,
   << "CLC", << >> >>,
   << "SHL", << OpReg("AX") >> >>,
   << "SHR", << OpReg("AX"), OpReg("DX") >> >>,
   << "SAL", << OpReg("AX"), OpImm(1) >> >>,
   << "SAL", << OpReg("AX"), OpImm(17) >> >>,
   << "DIV", << OpImm(0) >> >>,
   << "DIV", << OpImm(1) >> >>,
   << "DIV", << OpImm(2) >> >>,
   << "PUSH", << OpMemReg("BX", 2) >> >>,
   << "POP", << OpMemReg("BX", 2) >> >>,
   << "JMP", << OpLabel("START") >> >>,
   << "JMP", << OpLabel("NOWHERE") >> >>,
   << "JMP", << OpImm(70000) >> >>,
   << "JE", << OpLabel("NOWHERE") >> >>,
   << "JNE", << OpLabel("START") >> >>,
   << "CALL", << OpLabel("START") >> >>,
   << "RET", << >> >>,
   << "INT", << OpImm(1) >> >>,
   << "IRET", << >> >>,
   << "NOP", << >> >>,
   << "HLT", << >> >>,
   << "NOT", << OpReg("AX") >> >>,
   << "XOR", << OpReg("AX"), OpReg("AX") >> >>,
   << "AND", << OpReg("AX"), OpMemReg("BX", 2) >> >>,
   << "DIV", << OpReg("BX") >> >>,
   << "DIV", << OpMemReg("BX", 2) >> >>,
   << "DIV", << OpImm(4093) >> >>,
   << "JE", << OpImm(5) >> >>,
   << "JNE", << OpImm(5) >> >>,
   << "JC", << OpLabel("NOWHERE") >> >>}
    \cup {<< opcode, << OpReg("AX"), OpImm(b) >> >> :
            opcode \in {"AND", "OR", "XOR"}, b \in LogicInputs}
    \cup {<< opcode, << OpLabel("START") >> >> : opcode \in ConditionalJumps}
    \cup {<< opcode, << OpReg("AX"), OpImm(b) >> >> :
            opcode \in {"ADD", "ADC", "SUB", "SBB", "CMP"}, b \in WordInputs}
    \cup {<< opcode, << OpReg("AX"), OpImm(count) >> >> :
            opcode \in {"SHL", "SHR", "SAR"}, count \in ShiftCounts}
    \cup {<< opcode, << OpReg(r) >> >> :
            opcode \in {"PUSH", "POP"}, r \in GeneralRegisters}

InitCpu ==
  /\ debugProgram = 1
  /\ ToolsIdle
  /\ debugState \in CpuInputs
  /\ previousDebugState = << >>
  /\ debugOutput = << >>
  /\ debugSnapshots = << >>
  /\ timelineCursor = 0
  /\ traceLog = << >>
  /\ breakpoints = {}
  /\ watchpoints = << >>
  /\ lastOp = Op("init", 0, 0, "done")

\* the fetch-execute step of a program whose instruction at IP is the given
\* operation; a halted CPU executes nothing more
Execute(operation) ==
  /\ ~debugState.halted
  /\ Len(traceLog) < MaxCpuSteps
  /\ debugState' = executeInstruction(
                     debugState,
                     Ins(operation[1], operation[2], debugState.registers.IP),
                     CpuLabels)
  /\ previousDebugState' = << debugState >>
  /\ traceLog' = Append(traceLog,
                        [instruction |-> Ins(operation[1], operation[2],
                                             debugState.registers.IP),
                         before |-> debugState])
  /\ lastOp' = Op("execute", operation[1], Len(traceLog) + 1, "done")
  /\ UNCHANGED << toolVars, debugProgram, debugOutput, debugSnapshots, timelineCursor,
                  breakpoints, watchpoints >>

NextCpu == \E operation \in CpuOperations : Execute(operation)

SpecCpu == InitCpu /\ [][NextCpu]_vars

(***************************************************************************)
(* The assembler (src/unnamed/part_001).  A line of assembly text is kept   *)
(* as what the two passes read from it: the label before a colon, the       *)
(* mnemonic as spelled, and the operands; a blank line or a comment has     *)
(* neither label nor mnemonic.                                              *)
(***************************************************************************)
VALID_OPCODES ==
  {"MOV", "ADD", "ADC", "SUB", "SBB", "MUL", "DIV", "MOD", "NEG",
   "AND", "OR", "XOR", "NOT", "SHL", "SAL", "SHR", "SAR",
   "CMP", "JMP", "JE", "JZ", "JNE", "JNZ",
   "JL", "JG", "JLE", "JGE", "JNGE", "JNLE", "JNG", "JNL",
   "JC", "JNC", "JB", "JNB", "JAE", "JNAE",
   "JS", "JNS", "JO", "JNO",
   "INC", "DEC", "PUSH", "POP",
   "CALL", "RET", "INT", "IRET",
   "IN", "OUTP",
   "HLT", "NOP", "OUT", "OUTC",
   "CLC", "STC", "CMC"}

AsmLine(label, opcode, operands) ==
  [label |-> label, opcode |-> opcode, operands |-> operands]

CompilerError(line, message) == [line |-> line, message |-> message, type |-> "error"]

NoLabels == [name \in {} |-> 0]

isValidRegister(operand) == operand.kind = "reg" /\ operand.reg \in GeneralRegisters

isValidImmediate(operand) == operand.kind = "imm"

\* a bracketed register, register and offset, or number; [AH], [BH], [CH]
\* and [DH] pass as the hexadecimal numbers they spell
isValidMemoryOperand(operand) ==
  /\ operand.kind = "mem"
  /\ \/ operand.reg = ""
     \/ operand.reg \in GeneralRegisters
     \/ operand.reg \in {"AH", "BH", "CH", "DH"} /\ operand.val = 0

\* the null validateInstruction returns for an instruction it accepts
NoError == [line |-> 0, message |-> "", type |-> "none"]

validateInstruction(opcode, operands, line) ==
  CASE opcode = "MOV" ->
         IF Len(operands) # 2 THEN CompilerError(line, "MOV requires 2 operands")
         ELSE IF ~isValidRegister(operands[1]) /\ ~isValidMemoryOperand(operands[1])
           THEN CompilerError(line, "Invalid destination operand")
         ELSE IF /\ ~isValidRegister(operands[2])
                 /\ ~isValidMemoryOperand(operands[2])
                 /\ ~isValidImmediate(operands[2])
           THEN CompilerError(line, "Invalid source operand")
         ELSE IF isValidMemoryOperand(operands[1]) /\ isValidMemoryOperand(operands[2])
           THEN CompilerError(line, "MOV does not support memory to memory")
         ELSE NoError
    [] opcode \in {"ADD", "ADC", "SUB", "SBB", "CMP", "AND", "OR", "XOR"} ->
         IF Len(operands) # 2 THEN CompilerError(line, opcode \o " requires 2 operands")
         ELSE IF ~isValidRegister(operands[1])
           THEN CompilerError(line, "Invalid destination register")
         ELSE IF /\ ~isValidRegister(operands[2])
                 /\ ~isValidImmediate(operands[2])
                 /\ ~isValidMemoryOperand(operands[2])
           THEN CompilerError(line, "Invalid source operand")
         ELSE NoError
    [] opcode \in {"MUL", "DIV", "MOD"} ->
         IF Len(operands) # 1 THEN CompilerError(line, opcode \o " requires 1 operand")
         ELSE IF /\ ~isValidRegister(operands[1])
                 /\ ~isValidImmediate(operands[1])
                 /\ ~isValidMemoryOperand(operands[1])
           THEN CompilerError(line, "Invalid operand")
         ELSE NoError
    [] opcode \in {"SHL", "SAL", "SHR", "SAR"} ->
         IF Len(operands) < 1 \/ Len(operands) > 2
           THEN CompilerError(line, opcode \o " requires 1 or 2 operands")
         ELSE IF ~isValidRegister(operands[1])
           THEN CompilerError(line, "Invalid destination register")
         ELSE IF /\ Len(operands) = 2
                 /\ ~isValidRegister(operands[2])
                 /\ ~isValidImmediate(operands[2])
           THEN CompilerError(line, "Invalid shift count")
         ELSE NoError
    [] opcode \in {"INC", "DEC", "NEG", "NOT", "OUT", "OUTC"} ->
         IF Len(operands) # 1 THEN CompilerError(line, opcode \o " requires 1 operand")
         ELSE IF ~isValidRegister(operands[1]) THEN CompilerError(line, "Invalid register")
         ELSE NoError
    [] opcode \in {"PUSH", "POP"} ->
         IF Len(operands) # 1 THEN CompilerError(line, opcode \o " requires 1 operand")
         ELSE IF ~isValidRegister(operands[1]) /\ ~isValidMemoryOperand(operands[1])
           THEN CompilerError(line, "Invalid operand")
         ELSE NoError
    [] opcode = "CALL" ->
         IF Len(operands) # 1
           THEN CompilerError(line, "CALL requires 1 operand (label/address)")
           ELSE NoError
    [] opcode \in {"RET", "IRET"} ->
         IF Len(operands) # 0 THEN CompilerError(line, opcode \o " takes no operands")
         ELSE NoError
    [] opcode = "INT" ->
         IF Len(operands) # 1
           THEN CompilerError(line, "INT requires interrupt vector operand")
         ELSE IF operands[1].kind = "mem"
           THEN CompilerError(line, "Invalid interrupt vector")
         ELSE NoError
    [] opcode = "IN" ->
         IF Len(operands) # 2 THEN CompilerError(line, "IN requires 2 operands")
         ELSE IF ~isValidRegister(operands[1])
           THEN CompilerError(line, "Invalid destination register")
         ELSE IF ~isValidImmediate(operands[2])
           THEN CompilerError(line, "Invalid input port")
         ELSE NoError
    [] opcode = "OUTP" ->
         IF Len(operands) # 2 THEN CompilerError(line, "OUTP requires 2 operands")
         ELSE IF ~isValidImmediate(operands[1])
           THEN CompilerError(line, "Invalid output port")
         ELSE IF ~isValidRegister(operands[2])
           THEN CompilerError(line, "Invalid source register")
         ELSE NoError
    [] opcode \in {"JMP"} \cup ConditionalJumps ->
         IF Len(operands) # 1
           THEN CompilerError(line, opcode \o " requires 1 operand (label)")
           ELSE NoError
    [] opcode \in {"HLT", "NOP", "CLC", "STC", "CMC"} ->
         IF Len(operands) # 0 THEN CompilerError(line, opcode \o " takes no operands")
         ELSE NoError

\* first pass, one line: a label takes the index of the next instruction
collectLabel(line, i, first) ==
  IF line.label = "" /\ line.opcode = "" THEN first
  ELSE IF line.label = "" THEN [first EXCEPT !.instrIndex = @ + 1]
  ELSE
    [instrIndex |-> IF line.opcode # "" THEN first.instrIndex + 1 ELSE first.instrIndex,
     labels |-> IF toUpperCase(line.label) \in DOMAIN first.labels
                  THEN first.labels
                  ELSE first.labels @@ (toUpperCase(line.label) :> first.instrIndex),
     errors |-> IF toUpperCase(line.label) \in DOMAIN first.labels
                  THEN Append(first.errors,
                              CompilerError(i, "Duplicate label: "
                                                 \o toUpperCase(line.label)))
                  ELSE first.errors]

\* first pass over the lines from..to in order: the lower half, then the
\* upper half
RECURSIVE collectLabels(_, _, _, _)
collectLabels(lines, from, to, first) ==
  IF from > to \/ ~Evaluated(first) THEN first
  ELSE IF from = to THEN collectLabel(lines[from], from, first)
  ELSE collectLabels(lines, (from + to) \div 2 + 1, to,
                     collectLabels(lines, from, (from + to) \div 2, first))

\* second pass, one line: a line with an unknown mnemonic takes an index and
\* leaves no instruction, a line that fails validation leaves its
\* instruction
parseInstruction(line, i, second) ==
  IF line.opcode = "" THEN second
  ELSE IF toUpperCase(line.opcode) \notin VALID_OPCODES
    THEN [second EXCEPT
            !.instrIndex = @ + 1,
            !.errors = Append(@, CompilerError(i, "Unknown instruction: "
                                                    \o toUpperCase(line.opcode)))]
  ELSE
    [instrIndex |-> second.instrIndex + 1,
     instructions |->
       Append(second.instructions,
              Ins(toUpperCase(line.opcode), line.operands, second.instrIndex)),
     errors |->
       IF validateInstruction(toUpperCase(line.opcode), line.operands, i) # NoError
         THEN Append(second.errors,
                     validateInstruction(toUpperCase(line.opcode), line.operands, i))
         ELSE second.errors]

\* second pass over the lines from..to in order
RECURSIVE parseInstructions(_, _, _, _)
parseInstructions(lines, from, to, second) ==
  IF from > to \/ ~Evaluated(second) THEN second
  ELSE IF from = to THEN parseInstruction(lines[from], from, second)
  ELSE parseInstructions(lines, (from + to) \div 2 + 1, to,
                         parseInstructions(lines, from, (from + to) \div 2, second))

\* variant: the implicit HLT is appended whatever the last instruction is
addImplicitHLT_always(instructions, instrIndex) ==
  Append(instructions, Ins("HLT", << >>, instrIndex))

\* Add implicit HLT if not present
addImplicitHLT(instructions, instrIndex) ==
  IF Len(instructions) = 0 \/ instructions[Len(instructions)].opcode # "HLT"
    THEN Append(instructions, Ins("HLT", << >>, instrIndex))
    ELSE instructions

assembleSecondPass(labels, second) ==
  [labels |-> labels,
   instructions |-> addImplicitHLT(second.instructions, second.instrIndex),
   errors |-> second.errors]

assembleFirstPass(source, first) ==
  assembleSecondPass(
    first.labels,
    parseInstructions(source, 1, Len(source),
                      [instrIndex |-> 0, instructions |-> << >>,
                       errors |-> first.errors]))

assemble(source) ==
  assembleFirstPass(
    source,
    collectLabels(source, 1, Len(source),
                  [instrIndex |-> 0, labels |-> NoLabels, errors |-> << >>]))

(***************************************************************************)
(* The code generator (src/src/compiler/codegen.ts).  A node of the syntax  *)
(* tree carries its type, its line, its value as text, the number of a      *)
(* Number node, and its children.  The generated assembly is kept line by   *)
(* line as the assembler reads it; a comment is a line without label and    *)
(* mnemonic.  The string table is written and never read, and is left out.  *)
(***************************************************************************)
VAR_BASE == 256

Node(type, line, value, number, children) ==
  [type |-> type, line |-> line, value |-> value, number |-> number,
   children |-> children]

Line(opcode, operands) == AsmLine("", opcode, operands)

LabelLine(name) == AsmLine(name, "", << >>)

CommentLine == AsmLine("", "", << >>)

push(ctx, line) == [ctx EXCEPT !.output = Append(@, line)]

pushAll(ctx, lines) == [ctx EXCEPT !.output = @ \o lines]

pushError(ctx, line, message) ==
  [ctx EXCEPT !.errors = Append(@, CompilerError(line, message))]

\* the string literals of this model: the character codes, and the lines the
\* comment '; Print string: "..."' becomes once the text is split at line
\* feeds: a line feed inside the literal ends the comment, and what follows
\* it, closing quote included, is read as assembly
StringLiterals ==
  ("hi" :> [codes |-> << 104, 105 >>, comment |-> << CommentLine >>])
    @@ ("a\nFOO" :> [codes |-> << 97, 10, 70, 79, 79 >>,
                     comment |-> << CommentLine, Line("FOO\"", << >>) >>])

\* the types generateNode has a case for
StatementTypes ==
  {"Program", "Block", "VarDecl", "Assignment", "If", "While", "For", "Print",
   "Input"}

ComparisonOperators == {"<", ">", "<=", ">=", "==", "!="}

\* variant: a condition with > leaves the loop only below the right operand
falseJump_strict ==
  ("<" :> "JGE") @@ (">" :> "JL") @@ ("<=" :> "JG") @@ (">=" :> "JL")
    @@ ("==" :> "JNE") @@ ("!=" :> "JE")

\* generateCondition: the jump to the false label, taken when the comparison
\* does not hold
falseJump ==
  ("<" :> "JGE") @@ (">" :> "JLE") @@ ("<=" :> "JG") @@ (">=" :> "JL")
    @@ ("==" :> "JNE") @@ ("!=" :> "JE")

\* generateConditionTrue and the comparisons of generateExpression: the jump
\* taken when the comparison holds
trueJump ==
  ("<" :> "JL") @@ (">" :> "JG") @@ ("<=" :> "JLE") @@ (">=" :> "JGE")
    @@ ("==" :> "JE") @@ ("!=" :> "JNE")

getVarAddress(name, ctx) ==
  IF name \notin DOMAIN ctx.variables
    THEN [address |-> VAR_BASE,
          ctx |-> pushError(ctx, 0, "Undefined variable: " \o name)]
    ELSE [address |-> VAR_BASE + ctx.variables[name], ctx |-> ctx]

RECURSIVE collectSymbols(_, _)
RECURSIVE collectSymbolsOfChildren(_, _, _)
collectSymbolsOfChildren(children, i, ctx) ==
  IF i > Len(children) \/ ~Evaluated(ctx) THEN ctx
  ELSE collectSymbolsOfChildren(children, i + 1, collectSymbols(children[i], ctx))

\* a variable met for the first time takes the next two bytes
declareVariable(node, ctx) ==
  IF VAR_BASE + ctx.nextOffset + 2 >= MEMORY_SIZE - 1
    THEN pushError([ctx EXCEPT !.variables = @ @@ (node.value :> ctx.nextOffset),
                               !.nextOffset = @ + 2],
                   node.line, "Program uses too many variables for available memory")
    ELSE [ctx EXCEPT !.variables = @ @@ (node.value :> ctx.nextOffset),
                     !.nextOffset = @ + 2]

collectSymbols(node, ctx) ==
  collectSymbolsOfChildren(
    node.children, 1,
    IF node.type \in {"VarDecl", "Assignment"} /\ node.value \notin DOMAIN ctx.variables
      THEN declareVariable(node, ctx)
      ELSE ctx)

\* the lines after the operands of a binary operation are in AX and BX
binaryOpLines(op, labelCounter) ==
  CASE op = "+" -> << Line("ADD", << OpReg("AX"), OpReg("BX") >>) >>
    [] op = "-" -> << Line("SUB", << OpReg("AX"), OpReg("BX") >>) >>
    [] op = "*" -> << Line("MUL", << OpReg("BX") >>) >>
    [] op = "/" -> << Line("MOV", << OpReg("DX"), OpImm(0) >>),
                      Line("DIV", << OpReg("BX") >>) >>
    [] op = "%" -> << Line("MOV", << OpReg("DX"), OpImm(0) >>),
                      Line("MOD", << OpReg("BX") >>) >>
    [] op = "and" -> << Line("AND", << OpReg("AX"), OpReg("BX") >>) >>
    [] op = "or" -> << Line("OR", << OpReg("AX"), OpReg("BX") >>) >>
    [] op \in ComparisonOperators ->
         << Line("CMP", << OpReg("AX"), OpReg("BX") >>),
            Line(trueJump[op], << OpLabel("_cmp_true_" \o ToString(labelCounter)) >>),
            Line("MOV", << OpReg("AX"), OpImm(0) >>),
            Line("JMP", << OpLabel("_cmp_end_" \o ToString(labelCounter)) >>),
            LabelLine("_cmp_true_" \o ToString(labelCounter)),
            Line("MOV", << OpReg("AX"), OpImm(1) >>),
            LabelLine("_cmp_end_" \o ToString(labelCounter)) >>
    [] OTHER -> << >>

\* the lines after the operand of a unary operation is in the target register
applyUnaryOp(op, ctx, targetReg) ==
  IF op = "-" THEN push(ctx, Line("NEG", << OpReg(targetReg) >>))
  ELSE IF op = "not"
    THEN [pushAll(ctx,
            << Line("CMP", << OpReg(targetReg), OpImm(0) >>),
               Line("MOV", << OpReg(targetReg), OpImm(0) >>),
               Line("JNE", << OpLabel("_notnot_" \o ToString(ctx.labelCounter)) >>),
               Line("MOV", << OpReg(targetReg), OpImm(1) >>),
               LabelLine("_notnot_" \o ToString(ctx.labelCounter)) >>)
            EXCEPT !.labelCounter = @ + 1]
    ELSE ctx

\* the operation itself, a comparison taking a label number, and the move
\* to a target register other than AX
applyBinaryOp(op, ctx, targetReg) ==
  pushAll([ctx EXCEPT !.labelCounter = IF op \in ComparisonOperators THEN @ + 1 ELSE @],
          binaryOpLines(op, ctx.labelCounter)
            \o IF targetReg # "AX"
                 THEN << Line("MOV", << OpReg(targetReg), OpReg("AX") >>) >>
                 ELSE << >>)

\* MOV of a variable into the target register
loadVariable(variable, targetReg) ==
  push(variable.ctx, Line("MOV", << OpReg(targetReg), OpMemImm(variable.address) >>))

RECURSIVE generateExpression(_, _, _)
generateExpression(node, ctx, targetReg) ==
  CASE node.type = "Number" ->
         push(ctx, Line("MOV", << OpReg(targetReg), OpImm(node.number) >>))
    [] node.type = "Identifier" ->
         loadVariable(getVarAddress(node.value, ctx), targetReg)
    [] node.type = "UnaryOp" ->
         IF Len(node.children) = 0 THEN ctx
         ELSE applyUnaryOp(node.value,
                           generateExpression(node.children[1], ctx, targetReg),
                           targetReg)
    [] node.type = "BinaryOp" ->
         IF Len(node.children) # 2
           THEN pushError(ctx, node.line, "Invalid binary operation")
           ELSE applyBinaryOp(
                  node.value,
                  pushAll(generateExpression(
                            node.children[2],
                            push(generateExpression(node.children[1], ctx, "AX"),
                                 Line("PUSH", << OpReg("AX") >>)),
                            "AX"),
                          << Line("MOV", << OpReg("BX"), OpReg("AX") >>),
                             Line("POP", << OpReg("AX") >>) >>),
                  targetReg)
    [] OTHER ->
         pushError(ctx, node.line, "Cannot generate expression for: " \o node.type)

\* the comparison of a condition: both operands, CMP, and the jump for the
\* operator where the table has one
compareOperands(condition, ctx, jumps, label) ==
  pushAll(generateExpression(
            condition.children[2],
            push(generateExpression(condition.children[1], ctx, "AX"),
                 Line("PUSH", << OpReg("AX") >>)),
            "BX"),
          << Line("POP", << OpReg("AX") >>),
             Line("CMP", << OpReg("AX"), OpReg("BX") >>) >>
            \o IF condition.value \in DOMAIN jumps
                 THEN << Line(jumps[condition.value], << OpLabel(label) >>) >>
                 ELSE << >>)

generateConditionTrue(condition, ctx, trueLabel) ==
  IF condition.type = "BinaryOp"
    THEN compareOperands(condition, ctx, trueJump, trueLabel)
    ELSE pushAll(generateExpression(condition, ctx, "AX"),
                 << Line("CMP", << OpReg("AX"), OpImm(0) >>),
                    Line("JNE", << OpLabel(trueLabel) >>) >>)

RECURSIVE generateCondition(_, _, _)
generateCondition(condition, ctx, falseLabel) ==
  IF condition.type = "BinaryOp"
    THEN IF condition.value = "and"
           THEN generateCondition(
                  condition.children[2],
                  generateCondition(condition.children[1], ctx, falseLabel),
                  falseLabel)
         ELSE IF condition.value = "or"
           THEN LET nextLabel == "_or_" \o ToString(ctx.labelCounter)
                IN push(generateCondition(
                          condition.children[2],
                          generateConditionTrue(
                            condition.children[1],
                            [ctx EXCEPT !.labelCounter = @ + 1], nextLabel),
                          falseLabel),
                        LabelLine(nextLabel))
         ELSE compareOperands(condition, ctx, falseJump, falseLabel)
    ELSE pushAll(generateExpression(condition, ctx, "AX"),
                 << Line("CMP", << OpReg("AX"), OpImm(0) >>),
                    Line("JE", << OpLabel(falseLabel) >>) >>)

\* the two lines each character of a printed string becomes
RECURSIVE printCharacters(_, _, _)
printCharacters(codes, i, ctx) ==
  IF i > Len(codes) THEN ctx
  ELSE printCharacters(
         codes, i + 1,
         pushAll(ctx, << Line("MOV", << OpReg("AX"), OpImm(codes[i]) >>),
                         Line("OUTC", << OpReg("AX") >>) >>))

\* MOV of AX into a variable
storeVariable(variable) ==
  push(variable.ctx, Line("MOV", << OpMemImm(variable.address), OpReg("AX") >>))

RECURSIVE generateNode(_, _)
RECURSIVE generateChildren(_, _, _)
generateChildren(children, i, ctx) ==
  IF i > Len(children) \/ ~Evaluated(ctx) THEN ctx
  ELSE generateChildren(children, i + 1, generateNode(children[i], ctx))

generateWhile(node, ctx) ==
  IF Len(node.children) < 2
    THEN pushError(ctx, node.line, "Invalid while statement structure")
  ELSE
    LET startLabel == "_while_" \o ToString(ctx.labelCounter)
        endLabel == "_endwhile_" \o ToString(ctx.labelCounter)
        started == pushAll([ctx EXCEPT !.labelCounter = @ + 1],
                           << CommentLine, LabelLine(startLabel), CommentLine >>)
        checked == push(generateCondition(node.children[1], started, endLabel),
                        CommentLine)
    IN pushAll(generateNode(node.children[2], checked),
               << Line("JMP", << OpLabel(startLabel) >>),
                  LabelLine(endLabel),
                  Line("NOP", << >>) >>)

generateIf(node, ctx) ==
  IF Len(node.children) < 2
    THEN pushError(ctx, node.line, "Invalid if statement structure")
  ELSE
    LET hasElse == Len(node.children) > 2
        elseLabel == "_else_" \o ToString(ctx.labelCounter)
        endLabel == "_endif_" \o ToString(ctx.labelCounter)
        started == pushAll([ctx EXCEPT !.labelCounter = @ + 1],
                           << CommentLine, CommentLine >>)
        checked == push(generateCondition(node.children[1], started,
                                          IF hasElse THEN elseLabel ELSE endLabel),
                        CommentLine)
        ifBody == generateNode(node.children[2], checked)
        elseBody ==
          IF hasElse
            THEN generateNode(
                   node.children[3],
                   pushAll(ifBody, << Line("JMP", << OpLabel(endLabel) >>),
                                      LabelLine(elseLabel), CommentLine >>))
            ELSE ifBody
    IN pushAll(elseBody, << LabelLine(endLabel), Line("NOP", << >>) >>)

\* the cases of For and Input are not used by the programs of this model
generateNode(node, ctx) ==
  CASE node.type \in {"Program", "Block"} -> generateChildren(node.children, 1, ctx)
    [] node.type \in {"VarDecl", "Assignment"} ->
         IF Len(node.children) = 0 THEN ctx
         ELSE storeVariable(
                getVarAddress(node.value,
                              push(generateExpression(node.children[1], ctx, "AX"),
                                   CommentLine)))
    [] node.type = "If" -> generateIf(node, ctx)
    [] node.type = "While" -> generateWhile(node, ctx)
    [] node.type = "Print" ->
         IF Len(node.children) = 0 THEN ctx
         ELSE IF node.children[1].type = "String"
           THEN printCharacters(
                  StringLiterals[node.children[1].value].codes, 1,
                  pushAll(ctx, StringLiterals[node.children[1].value].comment))
           ELSE push(generateExpression(node.children[1], ctx, "AX"),
                     Line("OUT", << OpReg("AX") >>))
    [] node.type \notin StatementTypes ->
         pushError(ctx, node.line, "Unknown node type: " \o node.type)

NoVariables == [name \in {} |-> 0]

\* the closing HLT, and what generateCode returns
generatedCode(ctx) ==
  [assembly |-> ctx.output \o << CommentLine, Line("HLT", << >>) >>,
   errors |-> ctx.errors]

generateCode(ast) ==
  generatedCode(
    generateNode(
      ast,
      collectSymbols(
        ast,
        [output |-> << CommentLine, CommentLine, CommentLine >>,
         variables |-> NoVariables, nextOffset |-> 0, labelCounter |-> 0,
         errors |-> << >>])))

(***************************************************************************)
(* The compile pipeline (src/src/compiler/compiler.ts) and runProgram       *)
(* (src/src/emulator/cpu.ts).  A source text is kept as what the lexer and  *)
(* the parser make of it: the characters the lexer reports, the             *)
(* diagnostics of the parser, and the syntax tree.                          *)
(***************************************************************************)
maxSteps == 10000

\* the diagnostics of the lexer: an unterminated string and a character no
\* token starts with, each at its line
tokenize(source) ==
  [tokens |-> source,
   errors |-> [k \in 1..Len(source.lexical) |->
                 CompilerError(source.lexical[k].line,
                               IF source.lexical[k].kind = "string"
                                 THEN "Unterminated string literal"
                                 ELSE "Unexpected character")]]

\* the parser: its diagnostics, and a syntax tree in every case
parse(tokens) ==
  [ast |-> << tokens.tree >>,
   errors |-> [k \in 1..Len(tokens.syntax) |->
                 CompilerError(tokens.syntax[k].line, tokens.syntax[k].message)]]

\* variant: no diagnostic counts as an error
hasErrors_never(errors) == FALSE

\* errors.filter(e => e.type === 'error').length > 0
hasErrors(errors) == \E k \in 1..Len(errors) : errors[k].type = "error"

CompilationStage(name, success, errors) ==
  [name |-> name, success |-> success, errors |-> errors]

CompilationResult(success, assembly, program, errors, stages) ==
  [success |-> success, assembly |-> assembly, program |-> program,
   errors |-> errors, stages |-> stages]

\* Stage 4: Assembly
compileAssembled(allErrors, stages, assembly, program) ==
  CompilationResult(
    ~hasErrors(allErrors \o program.errors), assembly,
    IF hasErrors(allErrors \o program.errors) THEN << >> ELSE << program >>,
    allErrors \o program.errors,
    Append(stages, CompilationStage("Assembly", ~hasErrors(program.errors),
                                    program.errors)))

\* Stage 3: Code Generation
compileGenerated(allErrors, stages, generated) ==
  IF hasErrors(generated.errors)
    THEN CompilationResult(
           FALSE, generated.assembly, << >>, allErrors \o generated.errors,
           Append(stages, CompilationStage("Code Generation", FALSE, generated.errors)))
    ELSE compileAssembled(
           allErrors \o generated.errors,
           Append(stages, CompilationStage("Code Generation", TRUE, generated.errors)),
           generated.assembly, assemble(generated.assembly))

\* Stage 2: Parsing
compileParsed(allErrors, stages, parsed) ==
  IF hasErrors(parsed.errors) \/ parsed.ast = << >>
    THEN CompilationResult(
           FALSE, << >>, << >>, allErrors \o parsed.errors,
           Append(stages,
                  CompilationStage("Parsing",
                                   ~hasErrors(parsed.errors) /\ parsed.ast # << >>,
                                   parsed.errors)))
    ELSE compileGenerated(
           allErrors \o parsed.errors,
           Append(stages, CompilationStage("Parsing", TRUE, parsed.errors)),
           generateCode(parsed.ast[1]))

\* Stage 1: Lexical Analysis
compileTokenized(lexed) ==
  IF hasErrors(lexed.errors)
    THEN CompilationResult(
           FALSE, << >>, << >>, lexed.errors,
           << CompilationStage("Lexical Analysis", FALSE, lexed.errors) >>)
    ELSE compileParsed(
           lexed.errors, << CompilationStage("Lexical Analysis", TRUE, lexed.errors) >>,
           parse(lexed.tokens))

compile(source) == compileTokenized(tokenize(source))

\* one pass through the body of the loop of runProgram: the output an OUT or
\* OUTC is about to make is recorded, then the instruction is executed
runIteration(program, run) ==
  IF run.state.registers.IP < 0 \/ run.state.registers.IP >= Len(program.instructions)
    THEN [run EXCEPT !.state = [@ EXCEPT !.halted = TRUE, !.error = "IP out of bounds"]]
    ELSE [state |-> executeInstruction(
                      run.state, program.instructions[run.state.registers.IP + 1],
                      program.labels),
          output |-> run.output \o captureInstructionOutput(
                       run.state, program.instructions[run.state.registers.IP + 1]),
          steps |-> run.steps + 1]

\* the loop, while (!state.halted && steps < maxSteps), for up to 2^k passes:
\* the first half of the passes, then the second half
RECURSIVE runPasses(_, _, _)
runPasses(program, run, k) ==
  IF run.state.halted \/ run.steps >= maxSteps THEN run
  ELSE IF k = 0 THEN runIteration(program, run)
  ELSE runPasses(program, runPasses(program, run, k - 1), k - 1)

\* the loop to its end: one pass, then two, then four, and so on
RECURSIVE runLoop(_, _, _)
runLoop(program, run, k) ==
  IF run.state.halted \/ run.steps >= maxSteps THEN run
  ELSE runLoop(program, runPasses(program, run, k), k + 1)

\* after the loop: a run that did not halt within maxSteps is stopped
finishRun(run) ==
  [finalState |->
     IF run.steps >= maxSteps /\ ~run.state.halted
       THEN [run.state EXCEPT !.halted = TRUE,
                              !.error = "Maximum steps exceeded (infinite loop?)"]
       ELSE run.state,
   output |-> run.output]

runProgram(program) ==
  finishRun(runLoop(program,
                    [state |-> createInitialState, output |-> << >>, steps |-> 0], 0))

(***************************************************************************)
(* The toolchain outside the debugger: assembly text is assembled, a        *)
(* source program is compiled and run.                                      *)
(***************************************************************************)
MaxAsmLines == 3

\* the lines assembly text is made of here: blank or comment, a label alone
\* and a second time in other case, instructions with and without a label,
\* HLT in both cases, and a mnemonic the assembler does not know
AsmLineInputs ==
  {AsmLine("", "", << >>),
   AsmLine("LOOP", "", << >>),
   AsmLine("loop", "MOV", << OpReg("AX"), OpImm(1) >>),
   AsmLine("", "MOV", << OpReg("AX") >>),
   AsmLine("", "JMP", << OpLabel("loop") >>),
   AsmLine("", "HLT", << >>),
   AsmLine("", "hlt", << >>),
   AsmLine("", "FOO", << >>)}

AsmSources ==
  UNION {[1..n -> AsmLineInputs] : n \in 0..MaxAsmLines}

\* syntax trees, as the grammar builds them
Number(line, n) == Node("Number", line, "", n, << >>)

Identifier(line, name) == Node("Identifier", line, name, 0, << >>)

String(line, text) == Node("String", line, text, 0, << >>)

UnaryOp(line, op, operand) == Node("UnaryOp", line, op, 0, << operand >>)

BinaryOp(line, op, left, right) == Node("BinaryOp", line, op, 0, << left, right >>)

Assignment(line, name, expression) == Node("Assignment", line, name, 0, << expression >>)

PrintOf(line, expression) == Node("Print", line, "", 0, << expression >>)

Block(line, statements) == Node("Block", line, "", 0, statements)

While(line, condition, statements) ==
  Node("While", line, "", 0, << condition, Block(line, statements) >>)

ProgramOf(statements) == Node("Program", 1, "", 0, statements)

SourceText(lexical, syntax, tree) ==
  [lexical |-> lexical, syntax |-> syntax, tree |-> tree]

\* a number as the parser reads it: a minus sign is a unary operation
Literal(line, n) ==
  IF n < 0 THEN UnaryOp(line, "-", Number(line, -n)) ELSE Number(line, n)

\* SAMPLE_PROGRAMS.countdown
countdown ==
  SourceText(<< >>, << >>,
    ProgramOf(<<
      Assignment(2, "x", Number(2, 10)),
      While(4, BinaryOp(4, ">", Identifier(4, "x"), Number(4, 0)),
            << PrintOf(5, Identifier(5, "x")),
               Assignment(6, "x",
                          BinaryOp(6, "-", Identifier(6, "x"), Number(6, 1))) >>),
      PrintOf(8, Number(8, 0)) >>))

\* x = first / while x op bound / print x / x = x - step / end / print 7
WhileProgram(first, op, bound, step) ==
  SourceText(<< >>, << >>,
    ProgramOf(<<
      Assignment(1, "x", Literal(1, first)),
      While(2, BinaryOp(2, op, Identifier(2, "x"), Literal(2, bound)),
            << PrintOf(3, Identifier(3, "x")),
               Assignment(4, "x",
                          BinaryOp(4, "-", Identifier(4, "x"), Literal(4, step))) >>),
      PrintOf(6, Number(6, 7)) >>))

\* loops as << first, op, bound, step >>: each comparison, a loop that is
\* never entered, a loop that runs through zero to a negative bound, and
\* comparisons whose subtraction overflows
LoopInputs ==
  {<< 1, ">", -2, 1 >>, << 0, ">", 0, 1 >>, << 2, "!=", 0, 1 >>,
   << 32767, ">", -2, 32767 >>, << -32767, ">", 2, 1 >>, << -2, "<", 1, -1 >>,
   << 3, ">=", 2, 1 >>, << 0, "<=", 1, -1 >>, << 5, "==", 5, 1 >>}

WhilePrograms ==
  {WhileProgram(loop[1], loop[2], loop[3], loop[4]) : loop \in LoopInputs}

If(line, condition, statements) ==
  Node("If", line, "", 0, << condition, Block(line, statements) >>)

\* the variable is 1
IsOne(name) == BinaryOp(4, "==", Identifier(4, name), Number(4, 1))

\* conditions over the variables a, b and c: and/or of plain values and of
\* comparisons, an and/or inside an or on either side, and an arithmetic
\* operand
Conditions ==
  {BinaryOp(4, "or", Identifier(4, "a"), Identifier(4, "b")),
   BinaryOp(4, "and", Identifier(4, "a"), Identifier(4, "b")),
   BinaryOp(4, "or", IsOne("a"), IsOne("b")),
   BinaryOp(4, "and", IsOne("a"), IsOne("b")),
   BinaryOp(4, "or",
            BinaryOp(4, "and", Identifier(4, "a"), Identifier(4, "b")),
            Identifier(4, "c")),
   BinaryOp(4, "or", Identifier(4, "a"),
            BinaryOp(4, "and", Identifier(4, "b"), Identifier(4, "c"))),
   BinaryOp(4, "and",
            BinaryOp(4, "-", Identifier(4, "a"), Identifier(4, "b")),
            Identifier(4, "c"))}

\* the values the three variables take
TruthValues == {0, 1}

\* a = .. / b = .. / c = .. / if condition / print 1 / end / print 7
IfProgram(condition, a, b, c) ==
  SourceText(<< >>, << >>,
    ProgramOf(<<
      Assignment(1, "a", Number(1, a)),
      Assignment(2, "b", Number(2, b)),
      Assignment(3, "c", Number(3, c)),
      If(4, condition, << PrintOf(5, Number(5, 1)) >>),
      PrintOf(7, Number(7, 7)) >>))

IfPrograms ==
  {IfProgram(condition, a, b, c) :
     condition \in Conditions, a \in TruthValues, b \in TruthValues,
     c \in TruthValues}

\* print "hi"
PrintsString == SourceText(<< >>, << >>, ProgramOf(<< PrintOf(1, String(1, "hi")) >>))

\* print "a\nFOO": the line feed splits the generated comment
PrintsLineFeed ==
  SourceText(<< >>, << >>, ProgramOf(<< PrintOf(1, String(1, "a\nFOO")) >>))

\* print y, with y never assigned
UndefinedVariable ==
  SourceText(<< >>, << >>, ProgramOf(<< PrintOf(1, Identifier(1, "y")) >>))

\* x = 1 / while x > 0 / print x, with the end missing
UnclosedWhile ==
  SourceText(<< >>, << [line |-> 3, message |-> "Expected 'end'"] >>,
    ProgramOf(<<
      Assignment(1, "x", Number(1, 1)),
      While(2, BinaryOp(2, ">", Identifier(2, "x"), Number(2, 0)),
            << PrintOf(3, Identifier(3, "x")) >>) >>))

\* x = 1 @ / print "x: a stray character, then a string left open, and the
\* statement the parser would reject
StrayCharacter ==
  SourceText(<< [line |-> 1, kind |-> "character"], [line |-> 2, kind |-> "string"] >>,
             << [line |-> 2, message |-> "Expected expression"] >>,
             ProgramOf(<< Assignment(1, "x", Number(1, 1)) >>))

SourceInputs ==
  {countdown, PrintsString, PrintsLineFeed, UndefinedVariable, UnclosedWhile,
   StrayCharacter}
    \cup WhilePrograms \cup IfPrograms

DebuggerIdle ==
  /\ debugProgram = 1
  /\ debugState = createInitialState
  /\ previousDebugState = << >>
  /\ debugOutput = << >>
  /\ debugSnapshots = << >>
  /\ timelineCursor = 0
  /\ traceLog = << >>
  /\ breakpoints = {}
  /\ watchpoints = << >>
  /\ lastOp = Op("init", 0, 0, "done")

debuggerVars ==
  << debugProgram, debugState, previousDebugState, debugOutput, debugSnapshots,
     timelineCursor, traceLog, breakpoints, watchpoints, lastOp >>

\* either editor holds a text: assembly, or a source program
InitToolchain ==
  /\ DebuggerIdle
  /\ \/ /\ asmCode \in {<< source >> : source \in AsmSources}
        /\ sourceCode = << >>
     \/ /\ asmCode = << >>
        /\ sourceCode \in {<< source >> : source \in SourceInputs}
  /\ assembled = << >>
  /\ compilationResult = << >>
  /\ runState = << >>
  /\ runOutput = << >>
  /\ replayFile = << >>
  /\ pendingStep = << >>
  /\ savedSnapshots = << >>

\* the assembly editor assembles its text
Assemble ==
  /\ asmCode # << >>
  /\ assembled = << >>
  /\ assembled' = << assemble(asmCode[1]) >>
  /\ UNCHANGED << debuggerVars, asmCode, sourceCode, compilationResult, runState,
                  runOutput, replayFile, pendingStep, savedSnapshots >>

\* Compile: the result is kept, and the assembly editor takes the generated
\* text of a successful compilation
showCompilation(result) ==
  /\ compilationResult' = << result >>
  /\ asmCode' = IF result.success THEN << result.assembly >> ELSE asmCode
  /\ UNCHANGED << debuggerVars, assembled, sourceCode, runState, runOutput, replayFile,
                  pendingStep, savedSnapshots >>

handleCompile ==
  /\ sourceCode # << >>
  /\ compilationResult = << >>
  /\ showCompilation(compile(sourceCode[1]))

\* the output pane after a run
showRun(result, ran) ==
  /\ compilationResult' = << result >>
  /\ runState' = << ran.finalState >>
  /\ runOutput' = << ran.output >>
  /\ UNCHANGED << debuggerVars, asmCode, assembled, sourceCode, replayFile,
                  pendingStep, savedSnapshots >>

\* Run: the source is compiled and, on success, the program is run to its
\* end; the output pane shows the output or the diagnostics
runCompiled(result) ==
  IF result.success /\ result.program # << >>
    THEN showRun(result, runProgram(result.program[1]))
    ELSE /\ compilationResult' = << result >>
         /\ runState' = << >>
         /\ runOutput' = << result.errors >>
         /\ UNCHANGED << debuggerVars, asmCode, assembled, sourceCode, replayFile,
                  pendingStep, savedSnapshots >>

handleRun ==
  /\ sourceCode # << >>
  /\ runOutput = << >>
  /\ runCompiled(compile(sourceCode[1]))

NextToolchain ==
  \/ Assemble
  \/ handleCompile
  \/ handleRun

SpecToolchain == InitToolchain /\ [][NextToolchain]_vars

(***************************************************************************)
(* Replay export and import (exportReplaySession and importReplaySession   *)
(* of src/src/App.tsx, the codec of                                         *)
(* src/src/components/lab/ChallengePanel.tsx).  The exported file is held   *)
(* as the session record JSON.stringify writes out; parseReplaySession      *)
(* reads it back through the normalize functions, which mask what they      *)
(* read.  The time stamps and the saved snapshots are not part of the       *)
(* model, and the text in the file assembles to the program the session     *)
(* was debugging.                                                           *)
(***************************************************************************)
\* named snapshots the list keeps
SAVED_SNAPSHOT_LIMIT == 32

MAX_TRACE_FOR_REPLAY == 5000

\* Array.prototype.slice(-count) on a sequence
SliceLast(seq, count) == SubSeq(seq, Max(1, Len(seq) - count + 1), Len(seq))

normalizeNumberArray(value) == {mask16(item) : item \in value}

normalizeOutput(output) ==
  [i \in 1..Len(output) |->
     [type |-> output[i].type, value |-> mask16(output[i].value)]]

normalizeMemory(memory) == [a \in DOMAIN memory |-> memory[a] % 256]

normalizeRegisters(registers) ==
  [registerName \in DOMAIN registers |-> mask16(registers[registerName])]

normalizeState(state) ==
  [registers |-> normalizeRegisters(state.registers),
   memory |-> normalizeMemory(state.memory),
   halted |-> state.halted,
   error |-> state.error]

normalizePerf(perf) ==
  [instructionsExecuted |-> perf.instructionsExecuted,
   totalCycles |-> perf.totalCycles]

normalizeTraceEntry(entry) ==
  [step |-> entry.step,
   instructionAddress |-> entry.instructionAddress,
   instructionText |-> entry.instructionText,
   ipBefore |-> entry.ipBefore,
   ipAfter |-> entry.ipAfter,
   changedMemoryWords |-> normalizeNumberArray(entry.changedMemoryWords),
   memoryReads |-> normalizeNumberArray(entry.memoryReads),
   memoryWrites |-> normalizeNumberArray(entry.memoryWrites),
   output |-> normalizeOutput(entry.output),
   cycles |-> entry.cycles]

normalizeSnapshot(snapshot) ==
  [state |-> normalizeState(snapshot.state),
   output |-> normalizeOutput(snapshot.output),
   traceLength |-> snapshot.traceLength,
   perf |-> normalizePerf(snapshot.perf)]

createReplaySession(trace, snapshots, sortedBreakpoints) ==
  [trace |-> trace, snapshots |-> snapshots, breakpoints |-> sortedBreakpoints]

parseReplaySession(json) ==
  [trace |-> [i \in 1..Len(json.trace) |-> normalizeTraceEntry(json.trace[i])],
   snapshots |->
     [i \in 1..Len(json.snapshots) |-> normalizeSnapshot(json.snapshots[i])],
   breakpoints |-> normalizeNumberArray(json.breakpoints)]

\* the snapshots exportReplaySession writes beside a trace of the given
\* length: the last length + 1 of them
snapshotsForReplay(replayWindowLength) ==
  IF Len(debugSnapshots) > replayWindowLength
    THEN SliceLast(debugSnapshots, replayWindowLength)
    ELSE debugSnapshots

sessionForReplay(traceForReplay) ==
  createReplaySession(traceForReplay, snapshotsForReplay(Len(traceForReplay) + 1),
                      breakpoints)

\* the file is exported once, from the session as it stands
exportReplaySession ==
  /\ replayFile = << >>
  /\ replayFile' = << sessionForReplay(SliceLast(traceLog, MAX_TRACE_FOR_REPLAY)) >>
  /\ UNCHANGED << debuggerVars, asmCode, assembled, sourceCode, compilationResult,
                  runState, runOutput, pendingStep, savedSnapshots >>

\* what importReplaySession sets from the parsed session and the snapshots
\* it took from it
restoreReplay(session, importedSnapshots, restoredSnapshot) ==
  /\ traceLog' = Slice(session.trace,
                       Min(Len(session.trace), restoredSnapshot.traceLength))
  /\ debugSnapshots' = importedSnapshots
  /\ breakpoints' = session.breakpoints
  /\ timelineCursor' = Len(importedSnapshots) - 1
  /\ debugState' = restoredSnapshot.state
  /\ previousDebugState' =
       IF Len(importedSnapshots) - 1 > 0
         THEN << restoreExecutionSnapshot(
                   importedSnapshots[Len(importedSnapshots) - 1]).state >>
         ELSE << >>
  /\ debugOutput' = restoredSnapshot.output

importSnapshots(session, importedSnapshots) ==
  restoreReplay(session, importedSnapshots,
                restoreExecutionSnapshot(importedSnapshots[Len(importedSnapshots)]))

importSession(session) ==
  importSnapshots(session,
                  IF Len(session.snapshots) > 0 THEN session.snapshots
                  ELSE << InitialSnapshot >>)

importReplaySession ==
  /\ replayFile # << >>
  /\ importSession(parseReplaySession(replayFile[1]))
  \* the sessions of this model are exported with no named snapshot
  /\ savedSnapshots' = << >>
  /\ lastOp' = Op("import", 0, 0, "done")
  /\ UNCHANGED << editorVars, pendingStep, debugProgram, watchpoints >>

\* a debugging session, exported at any point and then imported
NextReplay ==
  \/ replayFile = << >> /\ debugStepInto
  \/ replayFile = << >> /\ debugStepOver
  \/ replayFile = << >> /\ debugRunToEnd
  \/ replayFile = << >> /\ Seek
  \/ replayFile = << >> /\ debugStepBack
  \/ replayFile = << >> /\ debugReset
  \/ replayFile = << >> /\ TriggerInterrupt
  \/ replayFile = << >> /\ ToggleBreakpoint
  \/ replayFile = << >> /\ AddWatchpoint
  \/ replayFile = << >> /\ ToggleWatchpoint
  \/ replayFile = << >> /\ RemoveWatchpoint
  \/ exportReplaySession
  \/ importReplaySession

SpecReplay == Init /\ [][NextReplay]_vars

(***************************************************************************)
(* A single step with its pipeline animation (runDebugStep of               *)
(* src/src/App.tsx).  The click runs the handler up to `await               *)
(* animatePipeline(ip)`; the rest of it, executeCurrentInstruction and the   *)
(* finally block, runs when the timers of the animation have fired, and it   *)
(* reads the debugger state from the closure of the render in which the      *)
(* click was handled.  pendingStep holds that closure while the step         *)
(* waits; isStepping is true exactly then.  Reset and the timeline slider    *)
(* stay enabled during the wait; Step Into, Continue and the interrupt       *)
(* trigger return at once when isStepping is set.                            *)
(***************************************************************************)
isStepping == pendingStep # << >>

\* the values executeCurrentInstruction reads from its closure
StepClosure ==
  [debugState |-> debugState, debugSnapshots |-> debugSnapshots,
   timelineCursor |-> timelineCursor, traceLog |-> traceLog]

\* runDebugStep('Step Into') up to the await: the step starts unless one is
\* in flight or the CPU is halted, and it waits when IP is inside the program
beginDebugStep ==
  /\ ~isStepping
  /\ ~debugState.halted
  /\ ~IPOutOfBounds(debugState.registers.IP)
  /\ pendingStep' = << StepClosure >>
  /\ lastOp' = Op("into", 0, 0, "waiting")
  /\ UNCHANGED << editorVars, savedSnapshots, debugProgram, debugState, previousDebugState,
                  debugOutput, debugSnapshots, timelineCursor, traceLog,
                  breakpoints, watchpoints >>

closureSnapshot(closure) ==
  restoreExecutionSnapshot(
    closure.debugSnapshots[Max(0, Min(closure.timelineCursor,
                                       Len(closure.debugSnapshots) - 1)) + 1])

closureSnapshots(closure) ==
  Slice(closure.debugSnapshots,
        Max(0, Min(closure.timelineCursor, Len(closure.debugSnapshots) - 1)) + 1)

closureTrace(closure) == Slice(closure.traceLog, closureSnapshot(closure).traceLength)

\* executeCurrentInstruction of the closure up to its setState calls
closureStepResult(closure) ==
  Recorded(closureSnapshots(closure), closureTrace(closure), closureSnapshot(closure),
           executeStepWithDiagnostics(
             closureSnapshot(closure).state,
             InstructionAt(closureSnapshot(closure).state.registers.IP),
             Program.labels, Len(closureTrace(closure)) + 1))

\* the setState calls of the step: each replaces the value the debugger holds
publishClosureStep(result) ==
  /\ Len(result.nextSnapshots) <= MaxSnapshots
  /\ previousDebugState' = << result.currentState >>
  /\ debugState' = result.nextState
  /\ debugOutput' = result.nextOutput
  /\ traceLog' = result.nextTrace
  /\ debugSnapshots' = result.nextSnapshots
  /\ timelineCursor' = Len(result.nextSnapshots) - 1
  /\ lastOp' = Op("into", 0, 1, "done")

\* the rest of runDebugStep after the animation: executeCurrentInstruction
\* of the closure, then setIsStepping(false)
completeDebugStep ==
  /\ isStepping
  /\ IF pendingStep[1].debugState.halted
       THEN /\ lastOp' = Op("into", 0, 0, "noop")
            /\ UNCHANGED << debugState, previousDebugState, debugOutput,
                            debugSnapshots, timelineCursor, traceLog >>
       ELSE IF IPOutOfBounds(closureSnapshot(pendingStep[1]).state.registers.IP)
         THEN /\ debugState' = [debugState EXCEPT !.halted = TRUE,
                                                   !.error = "IP out of bounds"]
              /\ lastOp' = Op("into", 0, 0, "oob")
              /\ UNCHANGED << previousDebugState, debugOutput, debugSnapshots,
                              timelineCursor, traceLog >>
         ELSE publishClosureStep(closureStepResult(pendingStep[1]))
  /\ pendingStep' = << >>
  /\ UNCHANGED << editorVars, savedSnapshots, debugProgram, breakpoints, watchpoints >>

\* single steps with their animation, Continue and the interrupt trigger
\* (both refuse while a step is in flight), Reset and the timeline slider
NextStepping ==
  \/ beginDebugStep
  \/ completeDebugStep
  \/ ~isStepping /\ debugRunToEnd
  \/ ~isStepping /\ TriggerInterrupt
  \/ debugReset
  \/ Seek

SpecStepping == Init /\ [][NextStepping]_vars

(***************************************************************************)
(* Named snapshots (App.tsx 734-795, snapshots.ts 56-72).  A named         *)
(* snapshot is found by its id; here it is found by its place in the list. *)
(***************************************************************************)

createSavedSnapshot(step, base) ==
  [step |-> step, state |-> base.state, output |-> base.output,
   traceLength |-> base.traceLength, perf |-> base.perf]

\* Save Snapshot: the snapshot at the cursor is put in front of the list
saveNamedSnapshot ==
  /\ Len(debugSnapshots) > 0
  /\ Len(savedSnapshots) < MaxSavedSnapshots
  /\ savedSnapshots' =
       Slice(<< createSavedSnapshot(safeTimelineIndex, activeSnapshot) >>
               \o savedSnapshots, SAVED_SNAPSHOT_LIMIT)
  /\ lastOp' = Op("save", safeTimelineIndex, 0, "done")
  /\ UNCHANGED << editorVars, pendingStep, debugProgram, debugState,
                  previousDebugState, debugOutput, debugSnapshots, timelineCursor,
                  traceLog, breakpoints, watchpoints >>

\* Restore: the named snapshot is appended to the snapshots up to the cursor
\* and the trace is cut to the named snapshot's traceLength
restoreSnapshot(namedSnapshot, place) ==
  LET restored == createExecutionSnapshot(namedSnapshot.state, namedSnapshot.output,
                                          namedSnapshot.traceLength, namedSnapshot.perf)
      nextSnapshots == Append(branchSnapshots, restored)
  IN /\ Len(nextSnapshots) <= MaxSnapshots
     /\ debugSnapshots' = nextSnapshots
     /\ traceLog' = Slice(traceLog, Min(Len(traceLog), namedSnapshot.traceLength))
     /\ timelineCursor' = Len(nextSnapshots) - 1
     /\ debugState' = restored.state
     /\ previousDebugState' =
          IF Len(branchSnapshots) > 0
            THEN << restoreExecutionSnapshot(
                      branchSnapshots[Len(branchSnapshots)]).state >>
            ELSE << >>
     /\ debugOutput' = restored.output
     /\ lastOp' = Op("restore", place, 0, "done")
     /\ UNCHANGED << toolVars, debugProgram, breakpoints, watchpoints >>

restoreNamedSnapshot ==
  \E place \in 1..Len(savedSnapshots) : restoreSnapshot(savedSnapshots[place], place)

\* a debugging session with named snapshots
NextSnapshots ==
  \/ debugStepInto
  \/ debugRunToEnd
  \/ Seek
  \/ debugReset
  \/ saveNamedSnapshot
  \/ restoreNamedSnapshot

SpecSnapshots == Init /\ [][NextSnapshots]_vars

(***************************************************************************)
(* Properties of the timeline.  In the action properties the unprimed       *)
(* variables are the state a handler started from, the primed ones the      *)
(* state it published, and lastOp' names the handler.                       *)
(***************************************************************************)
\* the handlers that execute instructions of the program
StepKinds == {"into", "over", "overcall", "continue"}

\* the two handlers that run a loop
RunKinds == {"overcall", "continue"}

\* the snapshot under the cursor and the state it holds
CursorSnapshot == debugSnapshots[timelineCursor + 1]

CursorState == CursorSnapshot.state

\* the registers and memory of a CPU that has just been reset
ResetState ==
  [registers |-> [r \in REGISTER_NAMES |-> IF r = "SP" THEN 4094 ELSE 0],
   memory |-> [a \in {} |-> 0],
   halted |-> FALSE,
   error |-> Null]

\* n instructions of the program executed in a row from state
RECURSIVE Iterate(_, _)
Iterate(state, n) ==
  IF n = 0 \/ IPOutOfBounds(state.registers.IP) THEN state
  ELSE Iterate(executeInstruction(state, InstructionAt(state.registers.IP),
                                  Program.labels), n - 1)

\* C1: after any sequence of Step Into, Step Over, Continue, Seek, Step
\* Back and Reset the timeline holds exactly one snapshot more than the
\* trace has entries, and its first snapshot holds the reset state
C1_OneSnapshotPerTraceEntry ==
  /\ Len(debugSnapshots) = Len(traceLog) + 1
  /\ debugSnapshots[1].state = ResetState

\* C2: every trace index i links two consecutive snapshots: snapshot i+1
\* holds the state executeInstruction returns for snapshot i's state and
\* the program's instruction at snapshot i's IP
C2_SnapshotsChainedByExecution ==
  \A i \in 1..Len(traceLog) :
    /\ i + 1 <= Len(debugSnapshots)
    /\ ~IPOutOfBounds(debugSnapshots[i].state.registers.IP)
    /\ debugSnapshots[i + 1].state =
         executeInstruction(debugSnapshots[i].state,
                            InstructionAt(debugSnapshots[i].state.registers.IP),
                            Program.labels)

\* C3: a new step taken with the cursor before the tip keeps the snapshots
\* up to the cursor and the trace up to the cursor snapshot's traceLength,
\* appends only what the step itself produced, and leaves the cursor on the
\* new tip
C3_NewStepAbandonsFuture ==
  [][(/\ lastOp'.kind \in StepKinds
      /\ lastOp'.stop # "noop"
      /\ ~(lastOp'.kind \in {"into", "over"} /\ lastOp'.stop = "oob")
      /\ timelineCursor < Len(debugSnapshots) - 1)
     => LET keep == timelineCursor + 1
            cut == CursorSnapshot.traceLength
            added == Len(debugSnapshots') - keep
        IN /\ SubSeq(debugSnapshots', 1, keep) = SubSeq(debugSnapshots, 1, keep)
           /\ SubSeq(traceLog', 1, cut) = SubSeq(traceLog, 1, cut)
           /\ Len(traceLog') = cut + lastOp'.steps
           /\ added >= lastOp'.steps
           /\ added <= lastOp'.steps + (IF lastOp'.kind \in RunKinds THEN 1 ELSE 0)
           /\ \A k \in 1..lastOp'.steps :
                /\ debugSnapshots'[keep + k].state = Iterate(CursorState, k)
                /\ debugSnapshots'[keep + k].traceLength = cut + k
                /\ traceLog'[cut + k].step = cut + k
                /\ traceLog'[cut + k].instructionAddress =
                     Iterate(CursorState, k - 1).registers.IP
           /\ \A j \in (keep + 1)..Len(debugSnapshots') :
                debugSnapshots'[j].traceLength <= Len(traceLog')
           /\ timelineCursor' = Len(debugSnapshots') - 1]_vars

\* C3 witness: a Continue that executed instructions after starting from a
\* cursor with snapshots beyond it
C3_Witness ==
  /\ lastOp.kind = "continue"
  /\ lastOp.arg > 0
  /\ lastOp.steps > 0
  /\ timelineCursor = Len(debugSnapshots) - 1

\* C4: while only single steps and seeks have been made since the reset,
\* snapshot i holds the state i instructions straight from the reset give,
\* whatever was rewound and re-executed in between, and a step leaves the
\* CPU in the state of the cursor's snapshot
C4_TimeTravelConsistency ==
  lastOp.pure =>
    /\ \A i \in 1..Len(debugSnapshots) :
         debugSnapshots[i].state = Iterate(ResetState, i - 1)
    /\ (lastOp.kind \in {"into", "over"} /\ lastOp.stop = "done")
         => /\ timelineCursor = Len(debugSnapshots) - 1
            /\ debugState = Iterate(ResetState, timelineCursor)

\* C4 witness: after a seek back to a snapshot k >= 1 the program was
\* stepped forward again
C4_Witness ==
  /\ lastOp.pure
  /\ lastOp.kind = "into"
  /\ lastOp.stop = "done"
  /\ lastOp.arg > 0
  /\ timelineCursor >= 2

\* C5 as stated: Continue executes no instruction at a breakpoint address
\* except the one it starts on, which it does execute; Step Into executes
\* exactly one instruction whatever the breakpoints
C5_ContinueStepsOffBreakpoint ==
  [][/\ (/\ lastOp'.kind = "continue"
         /\ lastOp'.stop # "noop"
         /\ ~IPOutOfBounds(CursorState.registers.IP))
        => LET cut == CursorSnapshot.traceLength
           IN /\ CursorState.registers.IP \in breakpoints => lastOp'.steps >= 1
              /\ \A j \in (cut + 2)..Len(traceLog') :
                   traceLog'[j].instructionAddress \notin breakpoints
     /\ (/\ lastOp'.kind = "into"
         /\ ~debugState.halted
         /\ ~IPOutOfBounds(CursorState.registers.IP))
        => /\ lastOp'.steps = 1
           /\ Len(traceLog') = CursorSnapshot.traceLength + 1]_vars

\* C5 amended: Continue executes no instruction whose address is in the
\* breakpoint set, the one it starts on included (started on a breakpoint
\* it executes nothing); Step Into executes exactly one instruction, the
\* one at IP, whatever the breakpoints
C5_ContinueNeverExecutesBreakpoint ==
  [][/\ (/\ lastOp'.kind = "continue"
         /\ lastOp'.stop # "noop"
         /\ ~IPOutOfBounds(CursorState.registers.IP))
        => LET cut == CursorSnapshot.traceLength
           IN /\ CursorState.registers.IP \in breakpoints
                   => /\ lastOp'.steps = 0
                      /\ traceLog' = SubSeq(traceLog, 1, cut)
                      /\ debugState' = CursorState
              /\ Len(traceLog') = cut + lastOp'.steps
              /\ \A j \in (cut + 1)..Len(traceLog') :
                   traceLog'[j].instructionAddress \notin breakpoints
     /\ (/\ lastOp'.kind = "into"
         /\ ~debugState.halted
         /\ ~IPOutOfBounds(CursorState.registers.IP))
        => /\ lastOp'.steps = 1
           /\ Len(traceLog') = CursorSnapshot.traceLength + 1
           /\ traceLog'[Len(traceLog')].instructionAddress = CursorState.registers.IP
           /\ debugState' = Iterate(CursorState, 1)]_vars

\* C5 witness: a Continue pressed with IP on a breakpoint
C5_Witness ==
  /\ lastOp.kind = "continue"
  /\ lastOp.stop = "breakpoint"
  /\ lastOp.steps = 0
  /\ debugState.registers.IP \in breakpoints
  /\ ~debugState.halted

\* C6: Continue and Step Over execute at most MAX_DEBUG_STEPS instructions;
\* when the cap is reached with the program still running the CPU is halted
\* with the cap error and holds the registers and memory the last executed
\* instruction left
C6_RunsAreCapped ==
  [][(\/ lastOp'.kind \in RunKinds /\ lastOp'.stop # "noop"
      \/ lastOp'.kind = "over" /\ lastOp'.stop = "done")
     => LET executed == Len(traceLog') - CursorSnapshot.traceLength
            after == Iterate(CursorState, MAX_DEBUG_STEPS)
        IN /\ executed <= MAX_DEBUG_STEPS
           /\ lastOp'.steps = executed
           /\ (executed = MAX_DEBUG_STEPS /\ ~after.halted)
                => /\ debugState'.halted
                   /\ debugState'.error = "Maximum steps exceeded (infinite loop?)"
                   /\ debugState'.registers = after.registers
                   /\ debugState'.memory = after.memory]_vars

\* C6 witness: a Continue that ran into the cap
C6_Witness ==
  /\ lastOp.kind = "continue"
  /\ lastOp.steps = MAX_DEBUG_STEPS
  /\ debugState.halted
  /\ debugState.error = "Maximum steps exceeded (infinite loop?)"

\* C7: on a halted CPU Step Into, Step Over, Continue and the manual
\* interrupt change neither state, snapshots, trace, output nor cursor; a
\* step that executes HLT sets halted and changes nothing else of the CPU
C7_HaltedIsFinal ==
  [][/\ (debugState.halted /\ lastOp'.kind \in StepKinds \cup {"int"})
        => UNCHANGED << debugState, debugSnapshots, traceLog, debugOutput,
                        timelineCursor >>
     /\ (/\ lastOp'.kind \in {"into", "over"}
         /\ lastOp'.stop = "done"
         /\ InstructionAt(CursorState.registers.IP).opcode = "HLT")
        => /\ debugState'.halted
           /\ debugState'.registers = CursorState.registers
           /\ debugState'.memory = CursorState.memory
           /\ debugState'.error = CursorState.error]_vars

\* C7 witness: a step, run or interrupt attempted after HLT halted the CPU
C7_Witness ==
  /\ debugState.halted
  /\ debugState.error = Null
  /\ lastOp.kind \in StepKinds \cup {"int"}
  /\ lastOp.stop = "noop"

\* an enabled watchpoint matches a trace entry when a word of the list its
\* kind selects overlaps [address, address + size)
WatchpointMatches(watchpoint, entry) ==
  /\ watchpoint.enabled
  /\ \E w \in (IF watchpoint.type = "read" THEN entry.memoryReads
               ELSE IF watchpoint.type = "write" THEN entry.memoryWrites
               ELSE entry.changedMemoryWords) :
       w < watchpoint.address + watchpoint.size /\ w + 2 > watchpoint.address

AnyWatchpointMatches(entry) ==
  \E i \in 1..Len(watchpoints) : WatchpointMatches(watchpoints[i], entry)

\* call depth after trace entries from..to, counted from 0
RECURSIVE DepthAfter(_, _, _)
DepthAfter(trace, from, to) ==
  IF to < from THEN 0
  ELSE LET depth == DepthAfter(trace, from, to - 1)
       IN IF trace[to].instructionText = "CALL" THEN depth + 1
          ELSE IF trace[to].instructionText = "RET" THEN Max(0, depth - 1)
          ELSE depth

C9_WatchpointStopsRun ==
  [][(lastOp'.kind \in RunKinds /\ lastOp'.stop # "noop")
     => LET cut == CursorSnapshot.traceLength
            keep == timelineCursor + 1
        IN /\ \A j \in (cut + 1)..Len(traceLog') :
                AnyWatchpointMatches(traceLog'[j])
                  => /\ j = Len(traceLog')
                     /\ lastOp'.stop = "watchpoint"
                     /\ debugSnapshots'[keep + (j - cut)].traceLength = j
                     /\ debugSnapshots'[keep + (j - cut)].state =
                          Iterate(CursorState, j - cut)
           /\ lastOp'.stop = "watchpoint"
                => /\ Len(traceLog') > cut
                   /\ AnyWatchpointMatches(traceLog'[Len(traceLog')])]_vars

\* C9 witness: a run paused by a watchpoint with the program still running
C9_Witness ==
  /\ lastOp.kind \in RunKinds
  /\ lastOp.stop = "watchpoint"
  /\ ~debugState.halted
  /\ AnyWatchpointMatches(traceLog[Len(traceLog)])

\* C10: Seek and Step Back leave snapshots and trace alone; Seek puts the
\* cursor on the clamped index, the CPU in that snapshot's state and the
\* previous state on the snapshot before it (none at index 0); Step Back is
\* Seek(cursor - 1) and does nothing at cursor 0
C10_SeekOnlyMovesCursor ==
  [][/\ lastOp'.kind \in {"seek", "back"} => UNCHANGED << debugSnapshots, traceLog >>
     /\ lastOp'.kind = "seek"
        => LET index == IF lastOp'.arg < 0 THEN 0
                        ELSE IF lastOp'.arg > Len(debugSnapshots) - 1
                          THEN Len(debugSnapshots) - 1
                        ELSE lastOp'.arg
           IN /\ timelineCursor' = index
              /\ debugState' = debugSnapshots[index + 1].state
              /\ debugOutput' = debugSnapshots[index + 1].output
              /\ previousDebugState' =
                   IF index > 0 THEN << debugSnapshots[index].state >> ELSE << >>
     /\ lastOp'.kind = "back"
        => IF timelineCursor = 0
             THEN UNCHANGED << timelineCursor, debugState, previousDebugState,
                               debugOutput >>
             ELSE /\ timelineCursor' = timelineCursor - 1
                  /\ debugState' = debugSnapshots[timelineCursor].state
                  /\ previousDebugState' =
                       IF timelineCursor > 1
                         THEN << debugSnapshots[timelineCursor - 1].state >>
                         ELSE << >>]_vars

\* C10 witness: a seek into the middle of the timeline
C10_Witness ==
  /\ lastOp.kind = "seek"
  /\ lastOp.arg = timelineCursor
  /\ timelineCursor > 0
  /\ timelineCursor < Len(debugSnapshots) - 1
  /\ previousDebugState = << debugSnapshots[timelineCursor].state >>

(***************************************************************************)
(* Properties of the CPU.  They are state predicates of the CPU             *)
(* specification: LastStep is the last instruction executed with the state  *)
(* it was executed in, debugState the state executeInstruction returned.    *)
(***************************************************************************)
Executed == Len(traceLog) > 0

LastStep == traceLog[Len(traceLog)]

\* the instruction threw: the catch block recorded a message
Failed == Executed /\ debugState.error # Null

Succeeded == Executed /\ debugState.error = Null

\* C11: in every state reached by executing instructions from a reachable
\* state, each of the ten registers holds a value in 0..65535 and every
\* memory byte a value in 0..255
C11_RegistersAndBytesInRange ==
  /\ \A r \in REGISTER_NAMES : debugState.registers[r] \in 0..WORD_MASK
  /\ \A a \in DOMAIN debugState.memory : debugState.memory[a] \in 0..255

\* the failures of the claim, told from the instruction and its input state
\* alone: unknown opcode, division by zero, division overflow, unknown
\* label, stack overflow, memory out of bounds, invalid operand
ExpectedFailure(before, instruction) ==
  LET opcode == instruction.opcode
      operands == instruction.operands
  IN \/ opcode \in {"CALL", "RET", "INT", "IRET"}
     \/ opcode = "DIV" /\ operands[1] = OpImm(0)
     \/ opcode = "DIV" /\ operands[1] = OpImm(1) /\ before.registers.DX >= 1
     \/ opcode = "JMP" /\ operands[1] = OpLabel("NOWHERE")
     \/ opcode = "JE" /\ operands[1] = OpLabel("NOWHERE")
          /\ Bit(before.registers.FLAGS, 6) = 1
     \/ opcode = "PUSH" /\ before.registers.SP < 2
     \/ opcode = "MOV" /\ OpMemImm(4095) \in {operands[1], operands[2]}
     \/ opcode = "MOV" /\ operands[2] = OpMemReg("AH", 0)

\* C12: an instruction that fails returns a state with halted set, an error
\* message, and the IP of the failed instruction; each failure of the list
\* (invalid operand, memory out of bounds, division by zero, division
\* overflow, unknown label, stack overflow, unknown opcode) is such a failure
C12_FailureHaltsAtInstruction ==
  Executed =>
    /\ ExpectedFailure(LastStep.before, LastStep.instruction) => debugState.error # Null
    /\ debugState.error # Null =>
         /\ debugState.halted
         /\ debugState.registers.IP = LastStep.before.registers.IP
         /\ LastStep.before.registers.IP = LastStep.instruction.address

\* C12 witness: DIV 1 with DX = 1 failed with a division overflow at
\* instruction index 2
C12_Witness ==
  /\ Executed
  /\ LastStep.instruction.opcode = "DIV"
  /\ LastStep.before.registers.DX = 1
  /\ debugState.error = "Division overflow"
  /\ debugState.halted
  /\ debugState.registers.IP = 2

\* C13: an instruction that fails leaves every register and every memory
\* byte as in its input state; only halted and error differ
C13_FailurePreservesState ==
  Failed =>
    /\ debugState.registers = LastStep.before.registers
    /\ debugState.memory = LastStep.before.memory

\* PUSH of a register immediately followed by POP into a register, both
\* succeeding, as the two instructions executed from an input state
PushThenPop ==
  /\ Len(traceLog) = 2
  /\ debugState.error = Null
  /\ traceLog[1].instruction.opcode = "PUSH"
  /\ traceLog[2].instruction.opcode = "POP"
  /\ parseRegister(traceLog[1].instruction.operands[1]) # ""
  /\ parseRegister(traceLog[2].instruction.operands[1]) # ""

PushedRegister == parseRegister(traceLog[1].instruction.operands[1])

PoppedRegister == parseRegister(traceLog[2].instruction.operands[1])

BeforePush == traceLog[1].before

\* the two memories agree on every byte other than sp - 2 and sp - 1
SameExceptStackBytes(memory, other, sp) ==
  \A a \in (DOMAIN memory) \cup (DOMAIN other) :
    a \notin {sp - 2, sp - 1} => readByte(memory, a) = readByte(other, a)

\* C14 as stated: for every register x and every register y, SP included,
\* PUSH x then POP y leaves memory identical except the bytes at SP-2 and
\* SP-1, SP as before the PUSH, and y holding the value x had (16 bits)
C14_PushPopRoundTrip ==
  PushThenPop =>
    /\ SameExceptStackBytes(BeforePush.memory, debugState.memory,
                            BeforePush.registers.SP)
    /\ debugState.registers.SP = BeforePush.registers.SP
    /\ debugState.registers[PoppedRegister] = mask16(BeforePush.registers[PushedRegister])

\* C14 amended: the round trip holds for every x, SP included, and every y
\* other than SP; POP SP leaves memory as stated and SP two above the value
\* x had
C14_PushPopRoundTripExceptIntoSP ==
  PushThenPop =>
    /\ SameExceptStackBytes(BeforePush.memory, debugState.memory,
                            BeforePush.registers.SP)
    /\ PoppedRegister # "SP" =>
         /\ debugState.registers.SP = BeforePush.registers.SP
         /\ debugState.registers[PoppedRegister] =
              mask16(BeforePush.registers[PushedRegister])
    /\ PoppedRegister = "SP" =>
         debugState.registers.SP = mask16(BeforePush.registers[PushedRegister]) + 2

\* C14 witness: PUSH AX then POP BX with AX = 0xFFFF moved the word through
\* the stack bytes 4092 and 4093
C14_Witness ==
  /\ PushThenPop
  /\ PushedRegister = "AX"
  /\ PoppedRegister = "BX"
  /\ BeforePush.registers.AX = 65535
  /\ BeforePush.registers.BX = 0
  /\ debugState.registers.BX = 65535
  /\ BeforePush.registers.SP = STACK_START
  /\ debugState.registers.SP = STACK_START
  /\ readWord(debugState, STACK_START - 2) = 65535
  /\ readWord(BeforePush, STACK_START - 2) = 0

StackOpcodes == {"PUSH", "POP", "CALL", "RET", "INT", "IRET"}

\* a stack instruction was the last one executed, and it succeeded
StackStepSucceeded == Succeeded /\ LastStep.instruction.opcode \in StackOpcodes

IsEven(n) == n % 2 = 0

\* POP whose destination is the register SP
PopsIntoSP(instruction) ==
  instruction.opcode = "POP" /\ parseRegister(instruction.operands[1]) = "SP"

IsMemoryOperand(operand) ==
  operand.kind = "mem" /\ (operand.reg = "" \/ operand.reg \in GeneralRegisters)

\* the effective address of a memory operand: (register + offset) mod 65536
\* or immediate mod 65536
EffectiveAddress(operand, registers) ==
  IF operand.reg # ""
    THEN (registers[operand.reg] + operand.val) % 65536
    ELSE operand.val % 65536

\* the two memories agree on every byte other than address and address + 1
SameExceptWord(memory, other, address) ==
  \A a \in (DOMAIN memory) \cup (DOMAIN other) :
    a \notin {address, address + 1} => readByte(memory, a) = readByte(other, a)

\* MOV [mem], AX executed last: a word write at the effective address
WordWriteStep ==
  /\ Executed
  /\ LastStep.instruction.opcode = "MOV"
  /\ IsMemoryOperand(LastStep.instruction.operands[1])
  /\ LastStep.instruction.operands[2] = OpReg("AX")

\* MOV AX, [mem] executed last: a word read at the effective address
WordReadStep ==
  /\ Executed
  /\ LastStep.instruction.opcode = "MOV"
  /\ LastStep.instruction.operands[1] = OpReg("AX")
  /\ IsMemoryOperand(LastStep.instruction.operands[2])

WriteAddress ==
  EffectiveAddress(LastStep.instruction.operands[1], LastStep.before.registers)

ReadAddress ==
  EffectiveAddress(LastStep.instruction.operands[2], LastStep.before.registers)

\* C16: a word access at effective address A succeeds iff 0 <= A <= 4094; a
\* write of v sets byte A to v mod 256 and byte A+1 to (v div 256) mod 256
\* and changes no other byte; a read returns byte[A] + 256 * byte[A+1]; an
\* instruction with a memory operand at any other A fails
C16_WordAccessLittleEndianInBounds ==
  /\ Executed =>
       \A i \in 1..Len(LastStep.instruction.operands) :
         /\ IsMemoryOperand(LastStep.instruction.operands[i])
         /\ EffectiveAddress(LastStep.instruction.operands[i],
                             LastStep.before.registers) \notin 0..4094
         => Failed
  /\ WordWriteStep =>
       IF WriteAddress \in 0..4094
         THEN /\ Succeeded
              /\ readByte(debugState.memory, WriteAddress)
                   = LastStep.before.registers.AX % 256
              /\ readByte(debugState.memory, WriteAddress + 1)
                   = (LastStep.before.registers.AX \div 256) % 256
              /\ SameExceptWord(LastStep.before.memory, debugState.memory, WriteAddress)
         ELSE Failed
  /\ WordReadStep =>
       IF ReadAddress \in 0..4094
         THEN /\ Succeeded
              /\ debugState.registers.AX
                   = readByte(LastStep.before.memory, ReadAddress)
                       + 256 * readByte(LastStep.before.memory, ReadAddress + 1)
              /\ debugState.memory = LastStep.before.memory
         ELSE Failed

\* C16 witness: MOV [BX+2], AX with BX = 4092 and AX = 0xBEEF wrote the last
\* word of memory, 0xEF at 4094 and 0xBE at 4095, over 0xCD and 0xAB
C16_Witness ==
  /\ WordWriteStep
  /\ Succeeded
  /\ LastStep.before.registers.BX = 4092
  /\ LastStep.before.registers.AX = 48879
  /\ WriteAddress = 4094
  /\ readByte(LastStep.before.memory, 4094) = 205
  /\ readByte(debugState.memory, 4094) = 239
  /\ readByte(debugState.memory, 4095) = 190

\* CMP executed last and succeeded
CmpStep == Succeeded /\ LastStep.instruction.opcode = "CMP"

\* the same operands under SUB, at the same instruction index
AsSub(instruction) == Ins("SUB", instruction.operands, instruction.address)

\* the state after CMP against the state SUB returns from the same input
CmpMatchesSub(before, afterCmp, afterSub) ==
  /\ \A r \in GeneralRegisters : afterCmp.registers[r] = before.registers[r]
  /\ afterCmp.memory = before.memory
  /\ afterSub.error = Null
  /\ afterCmp.registers.FLAGS = afterSub.registers.FLAGS
  /\ afterCmp.registers.IP = before.registers.IP + 1
  /\ afterSub.registers.IP = before.registers.IP + 1

\* C17: CMP a, b with b a register, a memory word or an immediate leaves
\* every general register and memory unchanged and produces the FLAGS that
\* SUB a, b produces from the same state; both advance IP by 1
C17_CmpIsSubWithoutStore ==
  CmpStep =>
    CmpMatchesSub(LastStep.before, debugState,
                  executeInstruction(LastStep.before, AsSub(LastStep.instruction),
                                     CpuLabels))

\* C17 witness: CMP AX, 1 with AX = 0 left AX at 0 and set CF, PF, AF and SF
\* as the borrow of 0 - 1 does
C17_Witness ==
  /\ CmpStep
  /\ LastStep.instruction.operands[2] = OpImm(1)
  /\ LastStep.before.registers.AX = 0
  /\ LastStep.before.registers.FLAGS = 0
  /\ debugState.registers.AX = 0
  /\ debugState.registers.FLAGS = FLAG_CF + FLAG_PF + FLAG_AF + FLAG_SF
  /\ debugState.registers.IP = LastStep.before.registers.IP + 1

\* the signed reading of a 16-bit word
Signed(word) == IF word >= 32768 THEN word - 65536 ELSE word

\* the 16-bit value of a source operand in a state
OperandWord(operand, state) ==
  IF operand.kind = "imm" THEN operand.val % 65536
  ELSE IF operand.kind = "reg" THEN state.registers[operand.reg] % 65536
  ELSE readByte(state.memory, EffectiveAddress(operand, state.registers))
         + 256 * readByte(state.memory, EffectiveAddress(operand, state.registers) + 1)

\* ADD or SUB executed last and succeeded
ArithmeticStep(opcode) == Succeeded /\ LastStep.instruction.opcode = opcode

LeftWord == LastStep.before.registers.AX

RightWord == OperandWord(LastStep.instruction.operands[2], LastStep.before)

\* CF, OF, ZF and SF of a FLAGS word against the carry and the signed and
\* the 16-bit result they are claimed to report
FlagsReport(flags, carry, signedResult, result16) ==
  /\ (Bit(flags, 0) = 1) <=> carry
  /\ (Bit(flags, 11) = 1) <=> signedResult \notin -32768..32767
  /\ (Bit(flags, 6) = 1) <=> result16 = 0
  /\ Bit(flags, 7) = Bit(result16, 15)

\* C18: for 16-bit a and b, ADD sets CF iff a + b >= 65536 and OF iff the
\* signed sum leaves -32768..32767; SUB sets CF iff a < b and OF iff the
\* signed difference leaves that range; both set ZF iff the 16-bit result is
\* 0 and SF to its bit 15; ADD 0x8000, 0x8000 gives CF, OF, ZF set and SF
\* clear; SUB a, a gives ZF set and CF, SF, OF clear
C18_AddSubFlags ==
  /\ ArithmeticStep("ADD") =>
       /\ FlagsReport(debugState.registers.FLAGS,
                      LeftWord + RightWord >= 65536,
                      Signed(LeftWord) + Signed(RightWord),
                      (LeftWord + RightWord) % 65536)
       /\ debugState.registers.AX = (LeftWord + RightWord) % 65536
       /\ LeftWord = 32768 /\ RightWord = 32768 =>
            /\ getFlags(debugState.registers.FLAGS).CF
            /\ getFlags(debugState.registers.FLAGS).OF
            /\ getFlags(debugState.registers.FLAGS).ZF
            /\ ~getFlags(debugState.registers.FLAGS).SF
  /\ ArithmeticStep("SUB") =>
       /\ FlagsReport(debugState.registers.FLAGS,
                      LeftWord < RightWord,
                      Signed(LeftWord) - Signed(RightWord),
                      (LeftWord - RightWord) % 65536)
       /\ debugState.registers.AX = (LeftWord - RightWord) % 65536
       /\ LeftWord = RightWord =>
            /\ getFlags(debugState.registers.FLAGS).ZF
            /\ ~getFlags(debugState.registers.FLAGS).CF
            /\ ~getFlags(debugState.registers.FLAGS).SF
            /\ ~getFlags(debugState.registers.FLAGS).OF

\* C18 witness: ADD AX, 0x8000 with AX = 0x8000 left AX = 0 with CF, PF, ZF
\* and OF set
C18_Witness ==
  /\ ArithmeticStep("ADD")
  /\ LeftWord = 32768
  /\ RightWord = 32768
  /\ debugState.registers.AX = 0
  /\ debugState.registers.FLAGS = FLAG_CF + FLAG_PF + FLAG_ZF + FLAG_OF

ShiftOpcodes == {"SHL", "SAL", "SHR", "SAR"}

\* a shift executed last and succeeded
ShiftStep == Succeeded /\ LastStep.instruction.opcode \in ShiftOpcodes

\* the count of the shift, masked to five bits: 1 without a count operand
MaskedCount(instruction, state) ==
  IF Len(instruction.operands) < 2 THEN 1
  ELSE OperandWord(instruction.operands[2], state) % 32

\* one position of a 16-bit shift: the new value and the bit shifted out
ShiftOnce(opcode, value) ==
  IF opcode \in {"SHL", "SAL"}
    THEN [value |-> (value * 2) % 65536, carry |-> Bit(value, 15)]
    ELSE IF opcode = "SHR"
      THEN [value |-> value \div 2, carry |-> Bit(value, 0)]
      ELSE [value |-> (value \div 2) + 32768 * Bit(value, 15), carry |-> Bit(value, 0)]

\* count positions, one at a time: the shifted value and the last bit
\* shifted out
RECURSIVE ShiftBy(_, _, _, _)
ShiftBy(opcode, value, carry, count) ==
  IF count = 0 THEN [value |-> value, carry |-> carry]
  ELSE ShiftBy(opcode, ShiftOnce(opcode, value).value,
               ShiftOnce(opcode, value).carry, count - 1)

\* the register and CF after a shift against the bit-by-bit shift
ShiftedAsBitByBit(opcode, before, after, count) ==
  /\ after.registers.AX = ShiftBy(opcode, before.registers.AX, 0, count).value
  /\ Bit(after.registers.FLAGS, 0) = ShiftBy(opcode, before.registers.AX, 0, count).carry

\* C19: a shift with masked count in 1..31, counts 17..31 included, leaves
\* the true shifted 16-bit value in the destination and the last bit shifted
\* out in CF; SHL r, 1 sets CF to the previous MSB and OF iff the MSB
\* changed; a masked count of 0 changes neither the register nor FLAGS
C19_ShiftsAreBitByBit ==
  ShiftStep =>
    /\ MaskedCount(LastStep.instruction, LastStep.before) \in 1..31 =>
         ShiftedAsBitByBit(LastStep.instruction.opcode, LastStep.before, debugState,
                           MaskedCount(LastStep.instruction, LastStep.before))
    /\ /\ LastStep.instruction.opcode \in {"SHL", "SAL"}
       /\ MaskedCount(LastStep.instruction, LastStep.before) = 1
       => /\ Bit(debugState.registers.FLAGS, 0) = Bit(LastStep.before.registers.AX, 15)
          /\ (Bit(debugState.registers.FLAGS, 11) = 1)
               <=> Bit(LastStep.before.registers.AX, 15) # Bit(debugState.registers.AX, 15)
    /\ MaskedCount(LastStep.instruction, LastStep.before) = 0 =>
         /\ debugState.registers.AX = LastStep.before.registers.AX
         /\ debugState.registers.FLAGS = LastStep.before.registers.FLAGS

\* ZF, SF, PF, AF and OF of two FLAGS words agree
SameFlagsButCF(flags, other) ==
  \A n \in {2, 4, 6, 7, 11} : Bit(flags, n) = Bit(other, n)

\* INC or DEC of AX executed last and succeeded
CountStep(opcode) ==
  /\ Succeeded
  /\ LastStep.instruction.opcode = opcode
  /\ LastStep.instruction.operands = << OpReg("AX") >>

\* the ADD or SUB of 1 to the same register, at the same instruction index
ByOne(opcode, instruction) ==
  Ins(opcode, << instruction.operands[1], OpImm(1) >>, instruction.address)

\* the state after INC or DEC against the state ADD r, 1 or SUB r, 1
\* returns from the same input
CountsLikeArithmetic(before, after, arithmetic, expected) ==
  /\ Bit(after.registers.FLAGS, 0) = Bit(before.registers.FLAGS, 0)
  /\ arithmetic.error = Null
  /\ SameFlagsButCF(after.registers.FLAGS, arithmetic.registers.FLAGS)
  /\ after.registers.AX = expected

\* C20: INC and DEC leave CF as it was, for every register value and every
\* prior FLAGS; ZF, SF, PF, AF and OF are those ADD r, 1 and SUB r, 1
\* produce; the register becomes (r + 1) mod 65536 or (r - 1) mod 65536
C20_IncDecKeepCF ==
  /\ CountStep("INC") =>
       CountsLikeArithmetic(
         LastStep.before, debugState,
         executeInstruction(LastStep.before, ByOne("ADD", LastStep.instruction), CpuLabels),
         (LastStep.before.registers.AX + 1) % 65536)
  /\ CountStep("DEC") =>
       CountsLikeArithmetic(
         LastStep.before, debugState,
         executeInstruction(LastStep.before, ByOne("SUB", LastStep.instruction), CpuLabels),
         (LastStep.before.registers.AX - 1) % 65536)

\* C20 witness: INC AX with AX = 0xFFFF and CF clear wrapped AX to 0 and
\* set PF, AF and ZF, leaving CF clear where ADD AX, 1 sets it
C20_Witness ==
  /\ CountStep("INC")
  /\ LastStep.before.registers.AX = 65535
  /\ LastStep.before.registers.FLAGS = 0
  /\ debugState.registers.AX = 0
  /\ debugState.registers.FLAGS = FLAG_PF + FLAG_AF + FLAG_ZF


\* a step of the given opcodes that did not throw
StepOf(opcodes) == Succeeded /\ LastStep.instruction.opcode \in opcodes

\* the register named by the first operand of the last instruction
DestinationRegister == LastStep.instruction.operands[1].reg

\* ZF, SF and PF describe the word and CF and OF are clear
LogicFlagsOf(flags, word) ==
  /\ getFlags(flags).ZF <=> word = 0
  /\ getFlags(flags).SF <=> word >= 32768
  /\ getFlags(flags).PF <=>
       Cardinality({n \in 0..7 : Bit(word, n) = 1}) % 2 = 0
  /\ ~getFlags(flags).CF
  /\ ~getFlags(flags).OF

\* C21: AND, OR, XOR and NOT each set ZF, SF and PF from the 16-bit result
\* and clear CF and OF, for every operand value and prior FLAGS
C21_LogicFlags ==
  StepOf({"AND", "OR", "XOR", "NOT"}) =>
    LogicFlagsOf(debugState.registers.FLAGS,
                 debugState.registers[DestinationRegister])

\* C21 amended: AND, OR and XOR each set ZF, SF and PF from the 16-bit
\* result and clear CF and OF, for every operand value and prior FLAGS; NOT
\* leaves FLAGS unchanged
C21_LogicFlagsExceptNot ==
  /\ StepOf({"AND", "OR", "XOR"}) =>
       LogicFlagsOf(debugState.registers.FLAGS,
                    debugState.registers[DestinationRegister])
  /\ StepOf({"NOT"}) =>
       debugState.registers.FLAGS = LastStep.before.registers.FLAGS

\* C21 witness: AND AX, 0x8000 with AX = 0xFFFF, entered with CF, PF, AF and
\* ZF set, left AX = 0x8000 with SF and PF alone; and a NOT has run with CF
\* set before and after
C21_Witness ==
  /\ StepOf({"AND"})
  /\ LastStep.instruction.operands[2] = OpImm(32768)
  /\ LastStep.before.registers.AX = 65535
  /\ getFlags(LastStep.before.registers.FLAGS).CF
  /\ debugState.registers.AX = 32768
  /\ debugState.registers.FLAGS = FLAG_SF + FLAG_PF
  /\ Len(traceLog) = 2
  /\ traceLog[1].instruction.opcode = "NOT"
  /\ getFlags(traceLog[1].before.registers.FLAGS).CF
  /\ getFlags(traceLog[2].before.registers.FLAGS).CF


\* DIV executed last, with a source operand that has a value: an immediate,
\* a register, or a memory word inside memory
DivStep ==
  /\ Executed
  /\ LastStep.instruction.opcode = "DIV"
  /\ IsMemoryOperand(LastStep.instruction.operands[1]) =>
       inBoundsWord(EffectiveAddress(LastStep.instruction.operands[1],
                                     LastStep.before.registers))

\* the high and the low word of q * d + r, for words q, d and r; the product
\* is formed from the two bytes of d, so that no intermediate value passes
\* 2^31
ProductPlus(q, d, r) ==
  LET upper == q * (d \div 256)
      lower == (upper % 256) * 256 + q * (d % 256) + r
  IN [high |-> (upper \div 256) + (lower \div 65536), low |-> lower % 65536]

\* C22: DIV src with divisor d # 0 and q = floor((DX * 65536 + AX) / d) at
\* most 65535 sets AX = q and DX = the remainder, so that q * d + DX' is the
\* old DX:AX and DX' < d, and leaves FLAGS unchanged; with d = 0 or q above
\* 65535 the instruction fails and AX and DX keep their old values.  The
\* quotient is at most 65535 exactly when the old DX is below d.
C22_DivQuotientRemainder ==
  DivStep =>
    LET before == LastStep.before.registers
        d == OperandWord(LastStep.instruction.operands[1], LastStep.before)
    IN IF d # 0 /\ before.DX < d
         THEN /\ Succeeded
              /\ debugState.registers.AX \in 0..65535
              /\ debugState.registers.DX \in 0..(d - 1)
              /\ ProductPlus(debugState.registers.AX, d, debugState.registers.DX)
                   = [high |-> before.DX, low |-> before.AX]
              /\ debugState.registers.FLAGS = before.FLAGS
         ELSE /\ Failed
              /\ debugState.registers.AX = before.AX
              /\ debugState.registers.DX = before.DX

\* C22 witness: DIV [BX+2] divided DX:AX = 0xABCD:0x0000 by the memory word
\* 0xFFFF, leaving the quotient 0xABCD in AX and the remainder 0xABCD in DX
C22_Witness ==
  /\ DivStep
  /\ Succeeded
  /\ LastStep.instruction.operands[1] = OpMemReg("BX", 2)
  /\ LastStep.before.registers.DX = 43981
  /\ LastStep.before.registers.AX = 0
  /\ debugState.registers.AX = 43981
  /\ debugState.registers.DX = 43981


\* the flag condition of each conditional jump, read from the bits of FLAGS
JumpCondition(opcode, flags) ==
  LET CF == Bit(flags, 0) = 1
      ZF == Bit(flags, 6) = 1
      SF == Bit(flags, 7) = 1
      OF == Bit(flags, 11) = 1
  IN CASE opcode \in {"JE", "JZ"} -> ZF
       [] opcode \in {"JNE", "JNZ"} -> ~ZF
       [] opcode \in {"JL", "JNGE"} -> SF # OF
       [] opcode \in {"JG", "JNLE"} -> ~ZF /\ SF = OF
       [] opcode \in {"JLE", "JNG"} -> ZF \/ SF # OF
       [] opcode \in {"JGE", "JNL"} -> SF = OF
       [] opcode \in {"JC", "JB", "JNAE"} -> CF
       [] opcode \in {"JNC", "JAE", "JNB"} -> ~CF
       [] opcode = "JS" -> SF
       [] opcode = "JNS" -> ~SF
       [] opcode = "JO" -> OF
       [] opcode = "JNO" -> ~OF

\* a conditional jump to a label of the program executed last
JumpStep ==
  /\ Executed
  /\ LastStep.instruction.opcode \in ConditionalJumps
  /\ hasLabel(CpuLabels, LastStep.instruction.operands[1])

\* C23: every conditional jump transfers to its label exactly when its flag
\* condition holds and otherwise continues at IP + 1, changing no other
\* register, no flag and no memory
C23_ConditionalJumps ==
  JumpStep =>
    /\ debugState =
         [LastStep.before EXCEPT
            !.registers.IP =
               IF JumpCondition(LastStep.instruction.opcode,
                                LastStep.before.registers.FLAGS)
                 THEN CpuLabels[LastStep.instruction.operands[1].name]
                 ELSE LastStep.before.registers.IP + 1]

\* C23 witness: after CMP AX, 1 with AX = 0x8000 left OF set and SF clear,
\* JL START jumped from instruction index 3 to START = 0
C23_Witness ==
  /\ JumpStep
  /\ Len(traceLog) = 2
  /\ traceLog[1].instruction = Ins("CMP", << OpReg("AX"), OpImm(1) >>, 2)
  /\ traceLog[1].before.registers.AX = 32768
  /\ LastStep.instruction.opcode = "JL"
  /\ getFlags(LastStep.before.registers.FLAGS).OF
  /\ ~getFlags(LastStep.before.registers.FLAGS).SF
  /\ LastStep.before.registers.IP = 3
  /\ debugState.registers.IP = 0


\* a jump of the given opcodes, executed last, whose operand is not a label
\* of the program
UnresolvedJump(opcodes) ==
  /\ Executed
  /\ LastStep.instruction.opcode \in opcodes
  /\ ~hasLabel(CpuLabels, LastStep.instruction.operands[1])

\* the last instruction failed with 'Unknown label', leaving the CPU halted
\* at the instruction
FailedUnknownLabel ==
  /\ debugState.error = "Unknown label"
  /\ debugState.halted
  /\ debugState.registers = LastStep.before.registers
  /\ debugState.memory = LastStep.before.memory

\* JMP with an operand that is not a known label jumps to the operand parsed
\* as an immediate and fails only if it does not parse
JmpFallsBackToImmediate ==
  UnresolvedJump({"JMP"}) =>
    IF LastStep.instruction.operands[1].kind = "imm"
      THEN debugState =
             [LastStep.before EXCEPT
                !.registers.IP = LastStep.instruction.operands[1].val]
      ELSE FailedUnknownLabel

\* C30: label resolution is asymmetric: JMP with an operand that is not a
\* known label jumps to the operand parsed as an immediate and fails only if
\* it does not parse; a conditional jump naming an unknown label fails with
\* an 'Unknown label' error, halted, with IP unchanged
C30_LabelResolution ==
  /\ JmpFallsBackToImmediate
  /\ UnresolvedJump(ConditionalJumps) => FailedUnknownLabel

\* C30 amended: as C30 for JMP; a conditional jump whose condition holds and
\* that names an unknown label (a number included) fails with an 'Unknown
\* label' error, halted, with IP unchanged; one whose condition does not
\* hold continues at IP + 1 without resolving its operand
C30_LabelResolutionWhenTaken ==
  /\ JmpFallsBackToImmediate
  /\ UnresolvedJump(ConditionalJumps) =>
       IF JumpCondition(LastStep.instruction.opcode, LastStep.before.registers.FLAGS)
         THEN FailedUnknownLabel
         ELSE debugState =
                [LastStep.before EXCEPT
                   !.registers.IP = LastStep.before.registers.IP + 1]

\* C30 witness: JMP 70000 jumped to index 70000, where JE 5 with ZF set
\* failed with 'Unknown label' and left IP at 70000
C30_Witness ==
  /\ Len(traceLog) = 2
  /\ traceLog[1].instruction.opcode = "JMP"
  /\ traceLog[1].instruction.operands[1] = OpImm(70000)
  /\ UnresolvedJump({"JE"})
  /\ LastStep.instruction.operands[1] = OpImm(5)
  /\ getFlags(LastStep.before.registers.FLAGS).ZF
  /\ LastStep.before.registers.IP = 70000
  /\ FailedUnknownLabel
  /\ debugState.registers.IP = 70000


\* the word stored at an address of a memory, low byte first
WordAt(memory, address) ==
  readByte(memory, address) + 256 * readByte(memory, address + 1)

\* an instruction of the given opcode executed last
StepWith(opcode) == Executed /\ LastStep.instruction.opcode = opcode

\* C24: CALL L pushes IP + 1 (SP decreases by 2 and the word at the new SP
\* is the return index) and sets IP to labels[L]; RET pops the word at SP
\* into IP and raises SP by 2, so that a RET executed with the SP the CALL
\* left resumes after the CALL with the SP from before the CALL
C24_CallPushesReturnAndRetPops ==
  /\ ( /\ StepWith("CALL")
       /\ hasLabel(CpuLabels, LastStep.instruction.operands[1])
       /\ LastStep.before.registers.SP \in 2..MEMORY_SIZE )
     => /\ Succeeded
        /\ debugState.registers.SP = LastStep.before.registers.SP - 2
        /\ WordAt(debugState.memory, debugState.registers.SP)
             = LastStep.before.registers.IP + 1
        /\ debugState.registers.IP
             = CpuLabels[LastStep.instruction.operands[1].name]
  /\ ( /\ StepWith("RET")
       /\ LastStep.before.registers.SP \in 0..(MEMORY_SIZE - 2) )
     => /\ Succeeded
        /\ debugState.registers.IP
             = WordAt(LastStep.before.memory, LastStep.before.registers.SP)
        /\ debugState.registers.SP = LastStep.before.registers.SP + 2

\* C25: INT n pushes FLAGS, then IP + 1, and jumps to the handler index
\* stored in the word at address n * 2; IRET pops IP and then FLAGS, so that
\* after the handler's IRET, FLAGS, the index after the INT and SP are
\* restored
C25_InterruptRoundTrip ==
  /\ ( /\ StepWith("INT")
       /\ LastStep.instruction.operands[1].kind = "imm"
       /\ LastStep.before.registers.SP \in 4..MEMORY_SIZE )
     => /\ Succeeded
        /\ debugState.registers.SP = LastStep.before.registers.SP - 4
        /\ WordAt(debugState.memory, debugState.registers.SP + 2)
             = LastStep.before.registers.FLAGS
        /\ WordAt(debugState.memory, debugState.registers.SP)
             = LastStep.before.registers.IP + 1
        /\ debugState.registers.IP
             = WordAt(LastStep.before.memory,
                      LastStep.instruction.operands[1].val * 2)
  /\ ( /\ StepWith("IRET")
       /\ LastStep.before.registers.SP \in 0..(MEMORY_SIZE - 4) )
     => /\ Succeeded
        /\ debugState.registers.IP
             = WordAt(LastStep.before.memory, LastStep.before.registers.SP)
        /\ debugState.registers.FLAGS
             = WordAt(LastStep.before.memory, LastStep.before.registers.SP + 2)
        /\ debugState.registers.SP = LastStep.before.registers.SP + 4


(***************************************************************************)
(* Properties of the assembler.                                            *)
(***************************************************************************)
\* the lines of the assembly text that hold a mnemonic, and those among
\* them whose mnemonic the assembler knows
InstructionLines == SelectSeq(asmCode[1], LAMBDA line : line.opcode # "")

ParsedLines ==
  SelectSeq(InstructionLines, LAMBDA line : toUpperCase(line.opcode) \in VALID_OPCODES)

EndsWithHLT ==
  /\ Len(ParsedLines) > 0
  /\ ParsedLines[Len(ParsedLines)].opcode \in {"HLT", "hlt"}

\* C26: the last instruction of every assembled program is HLT: when the
\* last parsed instruction is not HLT, or there is none, the assembler
\* appends one implicit HLT whose address is the next instruction index (the
\* count of the instruction lines read), and it appends nothing when the
\* text already ends with HLT
C26_ProgramEndsWithHLT ==
  assembled # << >> =>
    /\ assembled[1].instructions[Len(assembled[1].instructions)].opcode = "HLT"
    /\ SubSeq(assembled[1].instructions, 1, Len(ParsedLines))
         = [k \in 1..Len(ParsedLines) |->
              Ins(toUpperCase(ParsedLines[k].opcode), ParsedLines[k].operands,
                  assembled[1].instructions[k].address)]
    /\ IF EndsWithHLT
         THEN Len(assembled[1].instructions) = Len(ParsedLines)
         ELSE /\ Len(assembled[1].instructions) = Len(ParsedLines) + 1
              /\ assembled[1].instructions[Len(assembled[1].instructions)]
                   = Ins("HLT", << >>, Len(InstructionLines))

\* C26 witness: `loop: MOV AX, 1 / JMP loop` was assembled into MOV, JMP and
\* an implicit HLT at index 2
C26_Witness ==
  /\ assembled # << >>
  /\ asmCode = << << AsmLine("loop", "MOV", << OpReg("AX"), OpImm(1) >>),
                     AsmLine("", "JMP", << OpLabel("loop") >>) >> >>
  /\ assembled[1].errors = << >>
  /\ assembled[1].labels = ("LOOP" :> 0)
  /\ assembled[1].instructions
       = << Ins("MOV", << OpReg("AX"), OpImm(1) >>, 0),
            Ins("JMP", << OpLabel("loop") >>, 1),
            Ins("HLT", << >>, 2) >>


(***************************************************************************)
(* Properties of the compile pipeline.                                      *)
(***************************************************************************)
StageNames == << "Lexical Analysis", "Parsing", "Code Generation", "Assembly" >>

\* the stage reported a diagnostic of error severity
ReportedError(stage) ==
  \E k \in 1..Len(stage.errors) : stage.errors[k].type = "error"

\* C27: the stages of a compilation are the first stages of the pipeline in
\* order; a lexical, parse or code-generation stage that reported an error is
\* the last stage that ran, and a pipeline that stopped early stopped at such
\* a stage; the lexical stage reported an error exactly when the lexer found
\* one in the source; whenever any stage, assembly included, reported an
\* error, success is false and there is no program; and success is true
\* exactly when no stage reported an error, and then there is a program.
C27_PipelineStopsAtFirstError ==
  compilationResult # << >> =>
    /\ Len(compilationResult[1].stages) \in 1..Len(StageNames)
    /\ \A k \in 1..Len(compilationResult[1].stages) :
         /\ compilationResult[1].stages[k].name = StageNames[k]
         /\ ReportedError(compilationResult[1].stages[k]) /\ k < Len(StageNames)
              => Len(compilationResult[1].stages) = k
         /\ ReportedError(compilationResult[1].stages[k])
              => /\ ~compilationResult[1].success
                 /\ compilationResult[1].program = << >>
    /\ Len(compilationResult[1].stages) < Len(StageNames)
         => ReportedError(
              compilationResult[1].stages[Len(compilationResult[1].stages)])
    /\ ReportedError(compilationResult[1].stages[1])
         <=> Len(sourceCode[1].lexical) > 0
    /\ compilationResult[1].success
         <=> \A k \in 1..Len(compilationResult[1].stages) :
               ~ReportedError(compilationResult[1].stages[k])
    /\ compilationResult[1].success => compilationResult[1].program # << >>

\* a source whose generated text the assembler rejects has been compiled: all
\* four stages ran, only the last reported an error, and there is no program
C27_Witness ==
  /\ compilationResult # << >>
  /\ Len(compilationResult[1].stages) = Len(StageNames)
  /\ \A k \in 1..3 : ~ReportedError(compilationResult[1].stages[k])
  /\ ReportedError(compilationResult[1].stages[4])
  /\ ~compilationResult[1].success
  /\ compilationResult[1].program = << >>


(***************************************************************************)
(* Properties of compiled loops.                                            *)
(***************************************************************************)
\* the comparison of two signed values
Holds(op, left, right) ==
  CASE op = "<" -> left < right
    [] op = ">" -> left > right
    [] op = "<=" -> left <= right
    [] op = ">=" -> left >= right
    [] op = "==" -> left = right
    [] op = "!=" -> left # right

\* the values a loop prints: x as long as x op bound holds of the signed
\* values, x going down by step in 16 bits
RECURSIVE LoopValues(_, _, _, _)
LoopValues(x, op, bound, step) ==
  IF Holds(op, Signed(x), bound)
    THEN << x >> \o LoopValues(mask16(x - step), op, bound, step)
    ELSE << >>

NumbersOf(output) == [k \in 1..Len(output) |-> output[k].value]

\* the source has been run to the end of runProgram
Ran(source) == sourceCode = << source >> /\ runState # << >> /\ runOutput # << >>

\* C29: a run of the countdown program prints the numbers 10, 9, ..., 1, 0 in
\* that order and ends halted without error; and a run of each loop program
\* prints x once for every pass in which the condition held of the signed
\* 16-bit values, then the 7 after the loop, and ends halted without error.
C29_WhileRunsWhileConditionHolds ==
  /\ Ran(countdown) =>
       /\ \A k \in 1..Len(runOutput[1]) : runOutput[1][k].type = "number"
       /\ NumbersOf(runOutput[1]) = << 10, 9, 8, 7, 6, 5, 4, 3, 2, 1, 0 >>
       /\ runState[1].halted
       /\ runState[1].error = Null
  /\ \A loop \in LoopInputs :
       Ran(WhileProgram(loop[1], loop[2], loop[3], loop[4])) =>
         /\ \A k \in 1..Len(runOutput[1]) : runOutput[1][k].type = "number"
         /\ NumbersOf(runOutput[1])
              = LoopValues(mask16(loop[1]), loop[2], loop[3], loop[4])
                  \o << 7 >>
         /\ runState[1].halted
         /\ runState[1].error = Null

\* the countdown program has been run and has printed eleven numbers
C29_Witness ==
  /\ Ran(countdown)
  /\ Len(runOutput[1]) = 11
  /\ runState[1].halted


\* C28: importing an exported replay yields the snapshots and the trace of
\* the exporting session, element for element, and every imported
\* snapshot's traceLength lies within the imported trace.  (No debugger
\* action runs between the export and the import, so the unprimed variables
\* of an import step are the exporting session.)
C28_ReplayRoundTrip ==
  [][importReplaySession =>
       /\ debugSnapshots' = debugSnapshots
       /\ traceLog' = traceLog
       /\ \A i \in 1..Len(debugSnapshots') :
            debugSnapshots'[i].traceLength \in 0..Len(traceLog')]_vars

(***************************************************************************)
(* Labels and instruction addresses of an assembled text.                   *)
(***************************************************************************)
\* the instructions the assembler keeps from the lines before line l
KeptBefore(l) ==
  SelectSeq(SubSeq(asmCode[1], 1, l - 1),
            LAMBDA line : line.opcode # ""
                            /\ toUpperCase(line.opcode) \in VALID_OPCODES)

\* line l is where its label is first defined
DefinesLabel(l) ==
  /\ asmCode[1][l].label # ""
  /\ \A e \in 1..(l - 1) :
       toUpperCase(asmCode[1][e].label) # toUpperCase(asmCode[1][l].label)

\* C31: in every assembled text, with or without unknown mnemonics, every
\* instruction's address is its index in the instructions array, and every
\* label that an instruction follows holds the index in that array of the
\* first instruction after it
C31_LabelsIndexInstructions ==
  assembled # << >> =>
    /\ \A k \in 1..Len(assembled[1].instructions) :
         assembled[1].instructions[k].address = k - 1
    /\ \A l \in 1..Len(asmCode[1]) :
         DefinesLabel(l) /\ Len(KeptBefore(l)) < Len(assembled[1].instructions) =>
           assembled[1].labels[toUpperCase(asmCode[1][l].label)] = Len(KeptBefore(l))

(***************************************************************************)
(* Output along the timeline.                                               *)
(***************************************************************************)
\* the outputs of the first count trace entries, one after the other
RECURSIVE OutputOfTrace(_)
OutputOfTrace(count) ==
  IF count = 0 THEN << >>
  ELSE OutputOfTrace(count - 1) \o traceLog[count].output

\* C32 (accumulation): the output of the snapshot at index i is the
\* concatenation of the outputs of the trace entries 0..i-1 (of all trace
\* entries, for a snapshot beyond the end of the trace)
C32_OutputAccumulatesAlongTimeline ==
  \A i \in 1..Len(debugSnapshots) :
    debugSnapshots[i].output = OutputOfTrace(Min(i - 1, Len(traceLog)))

(***************************************************************************)
(* Properties of compiled conditions.                                       *)
(***************************************************************************)
\* the value of an operand of a condition, in 16 bits
RECURSIVE ValueOf(_, _)
ValueOf(node, values) ==
  CASE node.type = "Number" -> node.number
    [] node.type = "Identifier" -> values[node.value]
    [] node.type = "BinaryOp" /\ node.value = "-" ->
         mask16(ValueOf(node.children[1], values) - ValueOf(node.children[2], values))

\* the truth of a condition: and/or of the truths of the operands, a
\* comparison of the signed values, and any other operand true when not zero
RECURSIVE TruthOf(_, _)
TruthOf(node, values) ==
  IF node.type = "BinaryOp" /\ node.value = "and"
    THEN TruthOf(node.children[1], values) /\ TruthOf(node.children[2], values)
  ELSE IF node.type = "BinaryOp" /\ node.value = "or"
    THEN TruthOf(node.children[1], values) \/ TruthOf(node.children[2], values)
  ELSE IF node.type = "BinaryOp" /\ node.value \in ComparisonOperators
    THEN Holds(node.value, Signed(ValueOf(node.children[1], values)),
               Signed(ValueOf(node.children[2], values)))
  ELSE ValueOf(node, values) # 0

\* C33: a run of `if condition / print 1 / end / print 7` reaches the body,
\* and prints 1 before the 7, exactly when the condition is true, for every
\* shape of the operands of and/or: comparison, nested and/or, arithmetic or
\* plain value
C33_AndOrAreLogical ==
  \A condition \in Conditions, a \in TruthValues, b \in TruthValues,
     c \in TruthValues :
    Ran(IfProgram(condition, a, b, c)) =>
      NumbersOf(runOutput[1])
        = IF TruthOf(condition, [name \in {"a", "b", "c"} |->
                                   IF name = "a" THEN a
                                   ELSE IF name = "b" THEN b ELSE c])
            THEN << 1, 7 >>
            ELSE << 7 >>

(***************************************************************************)
(* The cursor and the displayed state.                                      *)
(***************************************************************************)
\* C34: after any sequence of debugger operations the cursor is an index of
\* the snapshot list and the displayed CPU state (registers, memory, halted,
\* error) is the state of the snapshot at the cursor
C34_DisplayedStateIsSnapshotAtCursor ==
  /\ timelineCursor \in 0..(Len(debugSnapshots) - 1)
  /\ debugState = debugSnapshots[timelineCursor + 1].state

(***************************************************************************)
(* A Reset or Seek during the animation of a single step.                   *)
(***************************************************************************)
Timeline(snapshots, trace, cursor, state) ==
  [snapshots |-> snapshots, trace |-> trace, cursor |-> cursor, state |-> state]

\* what the debugger holds
CurrentTimeline == Timeline(debugSnapshots, traceLog, timelineCursor, debugState)

\* the step alone, from the state it was clicked in
StepAlone(result) ==
  Timeline(result.nextSnapshots, result.nextTrace, Len(result.nextSnapshots) - 1,
           result.nextState)

\* the step first and then the operations of the wait, of which the last
\* was a Reset, or a Seek to the index given
StepThenOperation(result, last) ==
  {Timeline(<< InitialSnapshot >>, << >>, 0, createInitialState)}
    \cup IF last.kind = "seek"
           THEN {Timeline(result.nextSnapshots, result.nextTrace,
                          Max(0, Min(last.arg, Len(result.nextSnapshots) - 1)),
                          result.nextSnapshots[
                            Max(0, Min(last.arg, Len(result.nextSnapshots) - 1)) + 1].state)}
           ELSE {}

\* the operations of the wait first and then the step, from the state they
\* left
OperationThenStep(result) ==
  IF debugState.halted \/ IPOutOfBounds(activeSnapshot.state.registers.IP)
    THEN {CurrentTimeline,
          Timeline(debugSnapshots, traceLog, timelineCursor,
                   [debugState EXCEPT !.halted = TRUE, !.error = "IP out of bounds"])}
    ELSE {StepAlone(result)}

\* C35: when a single step that waited for its animation completes, the
\* snapshots, trace, cursor and state are those of the step and the Reset or
\* Seek issued during the wait executed in one order or the other (of the
\* step alone when nothing was issued); and while a step is in flight the
\* only operations that run are Reset and Seek: no second Step Into, Step
\* Over, Continue or interrupt starts
C35_StepAndResetOrSeekSerialise ==
  [][/\ isStepping /\ pendingStep' = << >> =>
          CurrentTimeline' \in
            IF lastOp.kind \in {"reset", "seek"}
              THEN StepThenOperation(closureStepResult(pendingStep[1]), lastOp)
                     \cup OperationThenStep(StepResult)
              ELSE {StepAlone(closureStepResult(pendingStep[1]))}
     /\ isStepping /\ pendingStep' # << >> =>
          /\ pendingStep' = pendingStep
          /\ lastOp'.kind \in {"reset", "seek"}]_vars

(***************************************************************************)
(* Batch and interactive execution.  runProgram is followed with the        *)
(* history it returns, under the step cap it is given; the debugger's cap    *)
(* and the default of runProgram are the same number in the source.          *)
(***************************************************************************)
\* the loop of runProgram with its history, and the state pushed after it
\* when the cap ended the run
RECURSIVE runWithHistory(_, _, _)
runWithHistory(program, run, cap) ==
  IF run.state.halted \/ run.steps >= cap
    THEN IF run.steps >= cap /\ ~run.state.halted
           THEN [run EXCEPT
                   !.state = [@ EXCEPT !.halted = TRUE,
                                       !.error = "Maximum steps exceeded (infinite loop?)"],
                   !.history = Append(@,
                     [run.state EXCEPT !.halted = TRUE,
                                       !.error = "Maximum steps exceeded (infinite loop?)"])]
           ELSE run
  ELSE IF run.state.registers.IP < 0
            \/ run.state.registers.IP >= Len(program.instructions)
    THEN [run EXCEPT
            !.state = [@ EXCEPT !.halted = TRUE, !.error = "IP out of bounds"],
            !.history = Append(@, [run.state EXCEPT !.halted = TRUE,
                                                    !.error = "IP out of bounds"])]
  ELSE runWithHistory(
         program,
         [state |-> runIteration(program, run).state,
          history |-> Append(run.history, runIteration(program, run).state),
          output |-> runIteration(program, run).output,
          steps |-> run.steps + 1],
         cap)

runProgramWithin(program, cap) ==
  runWithHistory(program,
                 [state |-> createInitialState, history |-> << createInitialState >>,
                  output |-> << >>, steps |-> 0],
                 cap)

\* the debugger is at reset, with no breakpoint and no watchpoint
AtReset ==
  /\ debugSnapshots = << InitialSnapshot >>
  /\ traceLog = << >>
  /\ debugState = createInitialState
  /\ breakpoints = {}
  /\ watchpoints = << >>

\* what a batch run and a Continue have to agree on
Agree(run) ==
  /\ debugState' = run.state
  /\ debugOutput' = run.output
  /\ [i \in 1..Len(debugSnapshots') |-> debugSnapshots'[i].state] = run.history

\* C36: a Continue from reset with no breakpoints or watchpoints ends in the
\* final state and with the output of runProgram on the same program, and
\* the states of its snapshots are the history of runProgram, whether the
\* run ends by HLT, by an error, by IP leaving the program or by the step cap
C36_BatchAndContinueAgree ==
  [][AtReset /\ lastOp'.kind = "continue"
       => Agree(runProgramWithin(Program, MAX_DEBUG_STEPS))]_vars


(***************************************************************************)
(* Comparison followed by a conditional jump (cpu.ts 87-106, 556-567,      *)
(* 669-742).                                                               *)
(***************************************************************************)

\* the jumps that stand for a relation between the compared words
ComparisonJumps == ConditionalJumps \ {"JS", "JNS", "JO", "JNO"}

\* the trace is a successful CMP AX, b followed by a comparison jump to START
ComparedThenJumped ==
  /\ Len(traceLog) = 2
  /\ traceLog[1].instruction.opcode = "CMP"
  /\ traceLog[2].before.error = Null
  /\ traceLog[2].instruction.opcode \in ComparisonJumps
  /\ traceLog[2].instruction.operands = << OpLabel("START") >>

ComparedLeft == traceLog[1].before.registers.AX

ComparedRight == OperandWord(traceLog[1].instruction.operands[2], traceLog[1].before)

JumpTaken == debugState.registers.IP = CpuLabels["START"]

JumpFellThrough == debugState.registers.IP = traceLog[2].before.registers.IP + 1

\* the relation between a and b each jump of the comparison family stands for
ComparisonOf(opcode, a, b) ==
  IF opcode \in {"JL", "JNGE"} THEN Signed(a) < Signed(b)
  ELSE IF opcode \in {"JG", "JNLE"} THEN Signed(a) > Signed(b)
  ELSE IF opcode \in {"JLE", "JNG"} THEN Signed(a) <= Signed(b)
  ELSE IF opcode \in {"JGE", "JNL"} THEN Signed(a) >= Signed(b)
  ELSE IF opcode \in {"JE", "JZ"} THEN a = b
  ELSE IF opcode \in {"JNE", "JNZ"} THEN a # b
  ELSE IF opcode \in {"JB", "JC", "JNAE"} THEN a < b
  ELSE a >= b

\* C37: immediately after CMP a, b every conditional jump is taken exactly
\* when its relation holds between a and b: JL, JG, JLE and JGE compare the
\* two's-complement signed values, JE compares for equality and JB/JC compare
\* the unsigned values; a jump that is not taken falls through to the next
\* instruction.
C37_ComparisonJumpsExact ==
  ComparedThenJumped =>
    /\ debugState.error = Null
    /\ JumpTaken <=> ComparisonOf(traceLog[2].instruction.opcode, ComparedLeft, ComparedRight)
    /\ ~JumpTaken => JumpFellThrough

\* CMP 32768, 1 overflows the signed subtraction and JL is still taken
C37_Witness ==
  /\ ComparedThenJumped
  /\ ComparedLeft = 32768
  /\ ComparedRight = 1
  /\ traceLog[2].instruction.opcode = "JL"
  /\ JumpTaken


(***************************************************************************)
(* Reported memory accesses of a step (debugger.ts 40-61, 94-185).         *)
(***************************************************************************)

\* what executeStepWithDiagnostics reports for the instruction executed last
LastAccesses == detectMemoryAccesses(LastStep.before, LastStep.instruction)

LastChangedWords == diffMemoryWords(LastStep.before.memory, debugState.memory)

ChangedWordsAreWritten == LastChangedWords \subseteq LastAccesses.writes

ReportedAddressesAreWords ==
  \A w \in LastAccesses.reads \cup LastAccesses.writes :
    w % 2 = 0 /\ w >= 0 /\ w <= MEMORY_SIZE - 2

\* C38: for each executed instruction every address in changedMemoryWords also
\* appears in memoryWrites, and every reported read or write address is even
\* and inside 0..4094.
C38_ChangedWordsReportedAsWritten ==
  Executed => ChangedWordsAreWritten /\ ReportedAddressesAreWords


(***************************************************************************)
(* Addition and subtraction with carry (cpu.ts 307-320, 336-349).          *)
(***************************************************************************)

CarryIn == Bit(LastStep.before.registers.FLAGS, 0)

CarryOut == getFlags(debugState.registers.FLAGS).CF

AdcExact ==
  /\ debugState.registers.AX = (LeftWord + RightWord + CarryIn) % 65536
  /\ CarryOut <=> LeftWord + RightWord + CarryIn >= 65536

SbbExact ==
  /\ debugState.registers.AX = (65536 + 65536 + LeftWord - RightWord - CarryIn) % 65536
  /\ CarryOut <=> LeftWord < RightWord + CarryIn

\* C39: for all 16-bit dest, src and carry-in c, ADC sets dest to
\* (dest + src + c) mod 65536 and CF iff dest + src + c >= 65536, and SBB sets
\* dest to (dest - src - c) mod 65536 and CF iff dest < src + c.
C39_CarryAndBorrowPropagate ==
  /\ ArithmeticStep("ADC") => AdcExact
  /\ ArithmeticStep("SBB") => SbbExact


(***************************************************************************)
(* Bookkeeping of the snapshots (App.tsx 356-382, 759-795).                *)
(***************************************************************************)

RECURSIVE CyclesOfTrace(_)
\* the cycles of the entries of a trace, added up
CyclesOfTrace(trace) ==
  IF trace = << >> THEN 0
  ELSE CyclesOfTrace(Slice(trace, Len(trace) - 1)) + trace[Len(trace)].cycles

\* snapshot i of the timeline, counted from 0, stands after i instructions
SnapshotMatchesPosition(i) ==
  /\ debugSnapshots[i + 1].traceLength = i
  /\ debugSnapshots[i + 1].perf.instructionsExecuted = i
  /\ debugSnapshots[i + 1].perf.totalCycles = CyclesOfTrace(Slice(traceLog, i))

\* C40: after any sequence of debugger operations, restoring a named snapshot
\* included, snapshot i has traceLength i, instructionsExecuted i and the
\* total of the cycles of trace entries 0..i-1, and trace entry j has step
\* number j + 1.
C40_SnapshotsMatchTimeline ==
  /\ \A i \in 0..(Len(debugSnapshots) - 1) : SnapshotMatchesPosition(i)
  /\ \A j \in 0..(Len(traceLog) - 1) : traceLog[j + 1].step = j + 1

====
